---- MODULE Spec2Model ----
(***************************************************************************)
(* A model of starpy's two protocol engines and of its sequencer:          *)
(*   - FastAGIProtocol  (src/starpy/fastagi.py), specification SpecAGI     *)
(*   - AMIProtocol      (src/starpy/manager.py), specification SpecAMI     *)
(*   - InSequence       (src/starpy/fastagi.py), specification SpecSeq     *)
(* Text is modelled as tuples of one-character strings so that the         *)
(* regular expressions and the str methods of the source are computed,     *)
(* not assumed.                                                            *)
(***************************************************************************)
EXTENDS Integers, Sequences, FiniteSets, TLC

VARIABLES
    \* ---- FastAGIProtocol ----
    agiConn,                 \* transport: "new", "open" (connectionMade), "closing" (loseConnection), "lost"
    reading_variables,       \* FastAGIProtocol.reading_variables
    variables,               \* FastAGIProtocol.variables
    pendingMessages,         \* FastAGIProtocol.pendingMessages: FIFO of deferred ids
    lostConnectionDeferred,  \* FastAGIProtocol.lostConnectionDeferred: 0 is None, else a waiter id
    agiDfs,                  \* the Deferreds returned by sendCommand, in send order
    agiWaiters,              \* the Deferreds created by onClose
    onCloseReturned,         \* the waiter ids onClose has returned so far
    agiLog,                  \* ids of sendCommand Deferreds in the order they were fired
    agiWire,                 \* command lines written to the transport
    agiReplies,              \* number of lines that matched line_re outside the variable phase
    agiDropped,              \* number of those that found pendingMessages empty
    agiLines,                \* number of lines received
    onConnectCalls           \* number of times the on_connect hook ran

agiVars == <<agiConn, reading_variables, variables, pendingMessages,
             lostConnectionDeferred, agiDfs, agiWaiters, onCloseReturned,
             agiLog, agiWire, agiReplies, agiDropped, agiLines, onConnectCalls>>

VARIABLES
    \* ---- AMIProtocol ----
    amiConn,                 \* transport: "none" (no such connection), "new", "open", "closing", "lost"
    messageCache,            \* AMIProtocol.messageCache
    actionIDCallbacks,       \* AMIProtocol.actionIDCallbacks: insertion-ordered <<key, request>> entries
    eventTypeCallbacks,      \* AMIProtocol.eventTypeCallbacks: event type -> handlers
    count,                   \* AMIProtocol.count
    amiVersion,              \* AMIProtocol.amiVersion
    amiReqs,                 \* the requests issued: their Deferred and their callback's closure
    amiWire,                 \* lines written to the transport
    lastDispatch,            \* what the latest dispatchIncoming invoked, in order
    lostCompleted,           \* connectionLost ran to its last statement
    onConnectedCalls         \* number of times the on_connected hook ran

amiVars == <<amiConn, messageCache, actionIDCallbacks, eventTypeCallbacks, count,
             amiVersion, amiReqs, amiWire, lastDispatch, lostCompleted, onConnectedCalls>>

VARIABLES
    \* ---- InSequence ----
    seqBuilt,                \* an InSequence object exists
    actions,                 \* InSequence.actions: the actions not yet started
    results,                 \* InSequence.results
    finalDF,                 \* the Deferreds returned by __call__, one per call
    seqAppended,             \* number of actions appended so far; an action's id is its rank
    started,                 \* ids of the actions invoked, in invocation order
    inflight,                \* actions invoked whose Deferred has not fired yet
    seqFailed                \* ids of the actions that failed

seqVars == <<seqBuilt, actions, results, finalDF, seqAppended, started, inflight, seqFailed>>

VARIABLES
    \* ---- the operations of FastAGIProtocol ----
    agiCalls,                \* the calls of operations made by the holder of the protocol
    parses                   \* the results the callbacks that parse a result line gave

opVars == <<agiCalls, parses>>

VARIABLES
    \* ---- LineOnlyReceiver.dataReceived, the caller of lineReceived ----
    escapedFrom              \* the places an exception left lineReceived from

excVars == <<escapedFrom>>

vars == <<agiVars, amiVars, seqVars, opVars, excVars>>

(***************************************************************************)
(* Bounds                                                                  *)
(***************************************************************************)
MaxCmds == 3        \* sendCommand calls per connection
MaxAGILines == 5    \* lines received per connection
MaxActions == 4     \* actions appended to one sequencer
MaxReqs == 1        \* requests made by the caller per management connection
MaxCollected == 2   \* messages accumulated by one collectDeferred request
MaxCalls == 1       \* calls of operations per connection
MaxBuffered == 3    \* lines of a message that is not yet complete
MaxParses == 2      \* runs of a callback that parses a result line
MaxHandlers == 3    \* handlers subscribed to an event when it is dispatched

(***************************************************************************)
(* Text                                                                    *)
(***************************************************************************)
Digits == {"0", "1", "2", "3", "4", "5", "6", "7", "8", "9"}
Whitespace == {" ", "\t", "\r", "\n"}

RECURSIVE LStrip(_)
LStrip(s) == IF s # <<>> /\ Head(s) \in Whitespace THEN LStrip(Tail(s)) ELSE s

RECURSIVE RStrip(_)
RStrip(s) ==
    IF s # <<>> /\ s[Len(s)] \in Whitespace THEN RStrip(SubSeq(s, 1, Len(s) - 1)) ELSE s

Strip(s) == LStrip(RStrip(s))

StartsWith(s, p) == Len(s) >= Len(p) /\ SubSeq(s, 1, Len(p)) = p

EndsWith(s, p) == Len(s) >= Len(p) /\ SubSeq(s, Len(s) - Len(p) + 1, Len(s)) = p

(***************************************************************************)
(* Deferred                                                                *)
(***************************************************************************)
NoPayload == [exc |-> "none", code |-> <<>>, data |-> <<>>]

\* A Deferred that has not been fired.  by: ordinal of the reply line that
\* fired it (0: none, -1: connectionLost); sentAt: replies seen when it was sent.
NewDeferred(sentAt) ==
    [fired |-> 0, outcome |-> "pending", payload |-> NoPayload, by |-> 0, sentAt |-> sentAt]

\* Deferred.callback / Deferred.errback: the first call sets the outcome; a
\* further call is an AlreadyCalledError and is counted in fired.
FireDeferred(d, outcome, payload, by) ==
    IF d.fired = 0
    THEN [d EXCEPT !.fired = 1, !.outcome = outcome, !.payload = payload, !.by = by]
    ELSE [d EXCEPT !.fired = @ + 1]

(***************************************************************************)
(* FastAGIProtocol                                                         *)
(***************************************************************************)
\* line_re = '^(\d{3})\s+(.*)$'
line_re_match(line) ==
    /\ Len(line) >= 4
    /\ \A i \in 1..3 : line[i] \in Digits
    /\ line[4] \in Whitespace

line_re_code(line) == SubSeq(line, 1, 3)

line_re_dataMutantWholeLine(line) == line

line_re_data(line) == LStrip(SubSeq(line, 4, Len(line)))

\* agi_variable_re = '^(agi_.*): (.*)$'; the first group is greedy, so the
\* key ends at the last ": " of the line.
AgiSeparators(line) ==
    {i \in 5..(Len(line) - 1) : line[i] = ":" /\ line[i + 1] = " "}

agi_variable_re_match(line) == StartsWith(line, <<"a", "g", "i", "_">>) /\ AgiSeparators(line) # {}

AgiLastSeparator(line) ==
    CHOOSE i \in AgiSeparators(line) : \A j \in AgiSeparators(line) : j <= i

agi_variable_re_key(line) == SubSeq(line, 1, AgiLastSeparator(line) - 1)

agi_variable_re_valueMutantFromKey(line) == SubSeq(line, 5, Len(line))

agi_variable_re_value(line) == SubSeq(line, AgiLastSeparator(line) + 2, Len(line))

\* dict item assignment
DictSet(d, k, v) == (k :> v) @@ d

EmptyDict == [x \in {} |-> <<>>]

\* The lines the switch sends in the model.
Line200 == <<"2", "0", "0", " ", "r", "e", "s", "u", "l", "t", "=", "0">>
Line510 == <<"5", "1", "0", " ", "I", "n", "v", "a", "l", "i", "d">>
LineVar == <<"a", "g", "i", "_", "t", "y", "p", "e", ":", " ", "S", "I", "P">>
LineJunk == <<"H", "A", "N", "G", "U", "P">>
LineBlank == <<>>

AGILines == {Line200, Line510, LineVar, LineJunk, LineBlank}

Commands == {"ANSWER", "HANGUP"}

ConnectionDone == [exc |-> "ConnectionDone", code |-> <<>>, data |-> <<>>]

AGICommandFailure(code, data) == [exc |-> "AGICommandFailure", code |-> code, data |-> data]

AGIState(conn) ==
    /\ agiConn = conn
    /\ reading_variables = FALSE
    /\ variables = EmptyDict
    /\ pendingMessages = <<>>
    /\ lostConnectionDeferred = 0
    /\ agiDfs = <<>>
    /\ agiWaiters = <<>>
    /\ onCloseReturned = {}
    /\ agiLog = <<>>
    /\ agiWire = <<>>
    /\ agiReplies = 0
    /\ agiDropped = 0
    /\ agiLines = 0
    /\ onConnectCalls = 0
    /\ agiCalls = <<>>
    /\ parses = <<>>
    /\ escapedFrom = {}

\* FastAGIProtocol.connectionMade
AGIConnectionMade ==
    /\ agiConn = "new"
    /\ agiConn' = "open"
    /\ reading_variables' = TRUE
    /\ UNCHANGED <<variables, pendingMessages, lostConnectionDeferred, agiDfs,
                   agiWaiters, onCloseReturned, agiLog, agiWire, agiReplies,
                   agiDropped, agiLines, onConnectCalls>>

\* pendingMessages.pop(0)
PopFirstMutantLifo(q) == [df |-> q[Len(q)], rest |-> SubSeq(q, 1, Len(q) - 1)]


PopFirst(q) == [df |-> Head(q), rest |-> Tail(q)]

\* FastAGIProtocol.lineReceived
AGILineReceived(line) ==
    /\ agiConn = "open"
    /\ agiLines < MaxAGILines
    /\ agiLines' = agiLines + 1
    /\ IF reading_variables
       THEN /\ IF line = <<>>
               THEN /\ reading_variables' = FALSE
                    /\ onConnectCalls' = onConnectCalls + 1
                    /\ UNCHANGED variables
               ELSE /\ variables' =
                         IF agi_variable_re_match(line)
                         THEN DictSet(variables, agi_variable_re_key(line),
                                      agi_variable_re_value(line))
                         ELSE variables
                    /\ UNCHANGED <<reading_variables, onConnectCalls>>
            /\ UNCHANGED <<pendingMessages, agiDfs, agiLog, agiReplies, agiDropped>>
       ELSE /\ IF ~line_re_match(line)
               THEN UNCHANGED <<pendingMessages, agiDfs, agiLog, agiReplies, agiDropped>>
               ELSE /\ agiReplies' = agiReplies + 1
                    /\ IF pendingMessages = <<>>
                       THEN /\ agiDropped' = agiDropped + 1
                            /\ UNCHANGED <<pendingMessages, agiDfs, agiLog>>
                       ELSE LET p == PopFirst(pendingMessages)
                                d == agiDfs[p.df]
                            IN  /\ pendingMessages' = p.rest
                                /\ agiDfs' = [agiDfs EXCEPT ![p.df] =
                                      IF line_re_code(line) = <<"2", "0", "0">>
                                      THEN FireDeferred(d, "ok",
                                               [NoPayload EXCEPT !.data = line_re_data(line)],
                                               agiReplies + 1)
                                      ELSE FireDeferred(d, "err",
                                               AGICommandFailure(line_re_code(line),
                                                                 line_re_data(line)),
                                               agiReplies + 1)]
                                /\ agiLog' = Append(agiLog, p.df)
                                /\ UNCHANGED agiDropped
            /\ UNCHANGED <<reading_variables, variables, onConnectCalls>>
    /\ UNCHANGED <<agiConn, lostConnectionDeferred, agiWaiters, onCloseReturned, agiWire>>

\* FastAGIProtocol.sendCommand.  The caller holds the protocol object only
\* once the on_connect hook has handed it over.  A write to a transport that
\* is no longer connected is discarded by the transport.
AGISendCommandMutantStaleReply(commandString) ==
    /\ onConnectCalls > 0
    /\ Len(agiDfs) < MaxCmds
    /\ agiDfs' = Append(agiDfs,
                        IF agiDropped > 0 /\ pendingMessages = <<>>
                        THEN FireDeferred(NewDeferred(agiReplies), "ok", NoPayload, agiReplies)
                        ELSE NewDeferred(agiReplies))
    /\ pendingMessages' = IF agiDropped > 0 /\ pendingMessages = <<>>
                          THEN pendingMessages
                          ELSE Append(pendingMessages, Len(agiDfs) + 1)
    /\ agiWire' = IF agiConn = "open" THEN Append(agiWire, commandString) ELSE agiWire
    /\ UNCHANGED <<agiConn, reading_variables, variables, lostConnectionDeferred,
                   agiWaiters, onCloseReturned, agiLog, agiReplies, agiDropped,
                   agiLines, onConnectCalls>>

AGISendCommand(commandString) ==
    /\ onConnectCalls > 0
    /\ Len(agiDfs) < MaxCmds
    /\ agiDfs' = Append(agiDfs, NewDeferred(agiReplies))
    /\ pendingMessages' = Append(pendingMessages, Len(agiDfs) + 1)
    /\ agiWire' = IF agiConn = "open" THEN Append(agiWire, commandString) ELSE agiWire
    /\ UNCHANGED <<agiConn, reading_variables, variables, lostConnectionDeferred,
                   agiWaiters, onCloseReturned, agiLog, agiReplies, agiDropped,
                   agiLines, onConnectCalls>>

\* FastAGIProtocol.onClose

AGIOnClose ==
    /\ onConnectCalls > 0
    /\ LET w == IF lostConnectionDeferred = 0 THEN Len(agiWaiters) + 1
                ELSE lostConnectionDeferred
       IN  /\ lostConnectionDeferred' = w
           /\ agiWaiters' = IF w > Len(agiWaiters) THEN Append(agiWaiters, 0) ELSE agiWaiters
           /\ onCloseReturned' = onCloseReturned \cup {w}
    /\ UNCHANGED <<agiConn, reading_variables, variables, pendingMessages, agiDfs,
                   agiLog, agiWire, agiReplies, agiDropped, agiLines, onConnectCalls>>

\* for df in self.pendingMessages: df.errback(ConnectionDone(...))
ErrbackAllMutantFirst(dfs, pending) ==
    IF pending = <<>> THEN dfs
    ELSE [dfs EXCEPT ![Head(pending)] = FireDeferred(@, "err", ConnectionDone, -1)]

RECURSIVE ErrbackAll(_, _)
ErrbackAll(dfs, pending) ==
    IF pending = <<>> THEN dfs
    ELSE ErrbackAll([dfs EXCEPT ![Head(pending)] =
                        FireDeferred(@, "err", ConnectionDone, -1)],
                    Tail(pending))

\* FastAGIProtocol.connectionLost
AGIConnectionLost ==
    /\ agiConn \in {"open", "closing"}
    /\ agiConn' = "lost"
    /\ agiDfs' = ErrbackAll(agiDfs, pendingMessages)
    /\ agiLog' = agiLog \o pendingMessages
    /\ agiWaiters' = IF lostConnectionDeferred # 0
                     THEN [agiWaiters EXCEPT ![lostConnectionDeferred] = @ + 1]
                     ELSE agiWaiters
    /\ pendingMessages' = <<>>
    /\ UNCHANGED <<reading_variables, variables, lostConnectionDeferred, onCloseReturned,
                   agiWire, agiReplies, agiDropped, agiLines, onConnectCalls>>

(***************************************************************************)
(* AMIProtocol: text and messages                                          *)
(***************************************************************************)
\* the lower-case letter of each upper-case letter
LowerMap ==
    LET UpperChars == <<"A", "B", "C", "D", "E", "F", "G", "H", "I", "J", "K", "L", "M",
                        "N", "O", "P", "Q", "R", "S", "T", "U", "V", "W", "X", "Y", "Z">>
        LowerChars == <<"a", "b", "c", "d", "e", "f", "g", "h", "i", "j", "k", "l", "m",
                        "n", "o", "p", "q", "r", "s", "t", "u", "v", "w", "x", "y", "z">>
    IN  [c \in {UpperChars[i] : i \in 1..26} |->
            LowerChars[CHOOSE i \in 1..26 : UpperChars[i] = c]] @@ <<>>

\* str.lower
RECURSIVE Lower(_)
Lower(s) ==
    IF s = <<>> THEN <<>>
    ELSE <<IF Head(s) \in DOMAIN LowerMap THEN LowerMap[Head(s)] ELSE Head(s)>>
            \o Lower(Tail(s))

\* str(int)
RECURSIVE IntToStr(_)
IntToStr(n) ==
    LET d == <<"0", "1", "2", "3", "4", "5", "6", "7", "8", "9">>[(n % 10) + 1]
    IN  IF n < 10 THEN <<d>> ELSE Append(IntToStr(n \div 10), d)

\* '\r\n'.join(line.split('\n'))
RECURSIVE JoinSplitNewline(_)
JoinSplitNewline(s) ==
    IF s = <<>> THEN <<>>
    ELSE (IF Head(s) = "\n" THEN <<"\r", "\n">> ELSE <<Head(s)>>) \o JoinSplitNewline(Tail(s))

VERSION_PREFIX == <<"A", "s", "t", "e", "r", "i", "s", "k", " ", "C", "a", "l", "l", " ",
                    "M", "a", "n", "a", "g", "e", "r">>
END_DATA == <<"-", "-", "E", "N", "D", " ", "C", "O", "M", "M", "A", "N", "D", "-", "-">>

kActionid == <<"a", "c", "t", "i", "o", "n", "i", "d">>
kResponse == <<"r", "e", "s", "p", "o", "n", "s", "e">>
kEvent == <<"e", "v", "e", "n", "t">>
kOutput == <<"o", "u", "t", "p", "u", "t">>
vSuccess == <<"S", "u", "c", "c", "e", "s", "s">>
vError == <<"E", "r", "r", "o", "r">>
vHangup == <<"H", "a", "n", "g", "u", "p">>
vStatus == <<"S", "t", "a", "t", "u", "s">>
vStatusComplete == vStatus \o <<"C", "o", "m", "p", "l", "e", "t", "e">>
NoneKey == <<"None">>      \* Python's None where a str is expected

ami_id == <<"u">>          \* str(uuid.uuid4()) of this connection
X1 == <<"x", "-", "1">>    \* a correlation token supplied by the caller

kAction == <<"A", "c", "t", "i", "o", "n">>
kActionID == <<"A", "c", "t", "i", "o", "n", "I", "D">>

\* str(uuid.uuid4()) of the connections a process may hold; ami_id is one
ConnectionIds == {ami_id, <<"v">>}

\* '{}-{}'.format(self.ami_id, self.count)
ActionIdOf(id, n) == id \o <<"-">> \o IntToStr(n)

\* AMIProtocol.generateActionId, for the value count has before the call
generateActionIdMutantNoCount(cnt) == ami_id

generateActionId(cnt) == ActionIdOf(ami_id, cnt + 1)

\* line.split(':', 1)
Colons(line) == {i \in 1..Len(line) : line[i] = ":"}

FirstColon(line) == CHOOSE i \in Colons(line) : \A j \in Colons(line) : i <= j

\* What one turn of the while loop of dispatchIncoming makes of a line:
\* nothing ("skip": blank, or no ':' found), the output of a command, the
\* protocol version, or a key and a value.
SplitLineMutantLowerValue(rawline) ==
    LET line == Strip(rawline)
    IN  IF line = <<>> THEN [kind |-> "skip", key |-> <<>>, value |-> <<>>]
        ELSE IF EndsWith(line, END_DATA)
        THEN [kind |-> "output", key |-> kOutput,
              value |-> JoinSplitNewline(SubSeq(line, 1, Len(line) - Len(END_DATA)))]
        ELSE IF StartsWith(line, VERSION_PREFIX)
        THEN [kind |-> "version", key |-> <<>>,
              value |-> Strip(SubSeq(line, Len(VERSION_PREFIX) + 2, Len(line)))]
        ELSE IF Colons(line) = {} THEN [kind |-> "skip", key |-> <<>>, value |-> <<>>]
        ELSE [kind |-> "field",
              key |-> Strip(Lower(SubSeq(line, 1, FirstColon(line) - 1))),
              value |-> Strip(Lower(SubSeq(line, FirstColon(line) + 1, Len(line))))]

SplitLineMutantBareKey(rawline) ==
    LET line == Strip(rawline)
    IN  IF line = <<>> THEN [kind |-> "skip", key |-> <<>>, value |-> <<>>]
        ELSE IF EndsWith(line, END_DATA)
        THEN [kind |-> "output", key |-> kOutput,
              value |-> JoinSplitNewline(SubSeq(line, 1, Len(line) - Len(END_DATA)))]
        ELSE IF StartsWith(line, VERSION_PREFIX)
        THEN [kind |-> "version", key |-> <<>>,
              value |-> Strip(SubSeq(line, Len(VERSION_PREFIX) + 2, Len(line)))]
        ELSE IF Colons(line) = {} THEN [kind |-> "field", key |-> Strip(Lower(line)), value |-> <<>>]
        ELSE [kind |-> "field",
              key |-> Strip(Lower(SubSeq(line, 1, FirstColon(line) - 1))),
              value |-> Strip(SubSeq(line, FirstColon(line) + 1, Len(line)))]

SplitLine(rawline) ==
    LET line == Strip(rawline)
    IN  IF line = <<>> THEN [kind |-> "skip", key |-> <<>>, value |-> <<>>]
        ELSE IF EndsWith(line, END_DATA)
        THEN [kind |-> "output", key |-> kOutput,
              value |-> JoinSplitNewline(SubSeq(line, 1, Len(line) - Len(END_DATA)))]
        ELSE IF StartsWith(line, VERSION_PREFIX)
        THEN [kind |-> "version", key |-> <<>>,
              value |-> Strip(SubSeq(line, Len(VERSION_PREFIX) + 2, Len(line)))]
        ELSE IF Colons(line) = {} THEN [kind |-> "skip", key |-> <<>>, value |-> <<>>]
        ELSE [kind |-> "field",
              key |-> Strip(Lower(SubSeq(line, 1, FirstColon(line) - 1))),
              value |-> Strip(SubSeq(line, FirstColon(line) + 1, Len(line)))]

KeyValue(key, value) == key \o <<":", " ">> \o value

Tokens == {X1} \cup {generateActionId(n) : n \in 0..MaxReqs}

\* The messages the manager sends in the model: a response or an event,
\* with a correlation token or (NoneKey) without one.
Responses == [key : {<<"R">> \o Tail(kResponse)}, value : {vSuccess, vError}, token : Tokens]

Events == [key : {<<"E">> \o Tail(kEvent)}, value : {vStatusComplete}, token : Tokens]
          \cup [key : {<<"E">> \o Tail(kEvent)}, value : {vHangup}, token : {NoneKey}]

\* the lines of a message, the blank line that ends it included
WireLines(m) ==
    IF m.token = NoneKey THEN <<KeyValue(m.key, m.value), <<>>>>
    ELSE <<KeyValue(m.key, m.value), KeyValue(kActionID, m.token), <<>>>>

ServerMessages == {WireLines(m) : m \in Responses \cup Events}

AMILines == UNION {{m[i] : i \in 1..Len(m)} : m \in ServerMessages}

\* SplitLine of the lines of the model, evaluated once
SplitLines == [line \in AMILines |-> SplitLine(line)] @@ EmptyDict

ParseLineMutantOverwrite(acc, rawline) ==
    LET p == SplitLine(rawline)
    IN  CASE p.kind = "skip" -> acc
          [] p.kind = "output" -> [acc EXCEPT !.message = DictSet(@, p.key, p.value)]
          [] p.kind = "version" -> [acc EXCEPT !.version = p.value]
          [] p.kind = "field" -> [acc EXCEPT !.message = DictSet(@, p.key, p.value)]

\* One turn of the while loop of dispatchIncoming: acc is the message built
\* so far and the protocol version detected so far.
ParseLine(acc, rawline) ==
    LET p == IF rawline \in AMILines THEN SplitLines[rawline] ELSE SplitLine(rawline)
    IN  CASE p.kind = "skip" -> acc
          [] p.kind = "output" -> [acc EXCEPT !.message = DictSet(@, p.key, p.value)]
          [] p.kind = "version" -> [acc EXCEPT !.version = p.value]
          [] p.kind = "field" ->
                [acc EXCEPT !.message =
                    IF p.key \in DOMAIN acc.message
                    THEN DictSet(@, p.key, acc.message[p.key] \o <<"\r", "\n">> \o p.value)
                    ELSE DictSet(@, p.key, p.value)]

RECURSIVE ParseLines(_, _)
ParseLines(acc, cache) ==
    IF cache = <<>> THEN acc ELSE ParseLines(ParseLine(acc, Head(cache)), Tail(cache))

\* dict.get(key) on a message
Get(message, key) == IF key \in DOMAIN message THEN message[key] ELSE NoneKey

(***************************************************************************)
(* AMIProtocol: the pending map, an insertion-ordered dict                 *)
(***************************************************************************)
HasKey(cbs, key) == \E i \in 1..Len(cbs) : cbs[i].key = key

\* every correlated message handed to the request registered first
LookupMutantFirst(cbs, key) == cbs[1].req

Lookup(cbs, key) == cbs[CHOOSE i \in 1..Len(cbs) : cbs[i].key = key].req

\* self.actionIDCallbacks[key] = responseCallback
RegisterMutantSkip(cbs, key, req) == cbs

Register(cbs, key, req) ==
    IF HasKey(cbs, key)
    THEN [i \in 1..Len(cbs) |-> IF cbs[i].key = key THEN [key |-> key, req |-> req] ELSE cbs[i]]
    ELSE Append(cbs, [key |-> key, req |-> req])

\* AMIProtocol.cleanup: del self.actionIDCallbacks[actionid], KeyError ignored
cleanupMutantKeep(cbs, actionid) == cbs

cleanup(cbs, actionid) == SelectSeq(cbs, LAMBDA e : e.key # actionid)

(***************************************************************************)
(* AMIProtocol: requests                                                   *)
(***************************************************************************)
NoResult == [tag |-> "none", msg |-> EmptyDict, list |-> <<>>]

MessageResult(m) == [tag |-> "message", msg |-> m, list |-> <<>>]

ConnectionDoneResult == [tag |-> "ConnectionDone", msg |-> EmptyDict, list |-> <<>>]

AMICommandFailure(m) == [tag |-> "AMICommandFailure", msg |-> m, list |-> <<>>]

ListResult(l) == [tag |-> "list", msg |-> EmptyDict, list |-> l]

\* AMIProtocol.errorUnlessResponse as a callback: what it passes on
errorUnlessResponseMutantPass(result, expected) == [outcome |-> "value", result |-> result]

errorUnlessResponse(result, expected) ==
    IF result.tag = "message"
    THEN IF kResponse \notin DOMAIN result.msg
         THEN \* message['response'] on a dict without that key
              [outcome |-> "fault",
               result |-> [tag |-> "KeyError", msg |-> EmptyDict, list |-> <<>>]]
         ELSE IF result.msg[kResponse] # expected
         THEN [outcome |-> "fault", result |-> AMICommandFailure(result.msg)]
         ELSE [outcome |-> "value", result |-> result]
    ELSE [outcome |-> "value", result |-> result]

\* distutils' LooseVersion(vstring).version for a vstring made of digits
\* and '.': the numbers between the dots
RECURSIVE LooseVersion(_)
LooseVersion(s) ==
    IF s = <<>> THEN <<>>
    ELSE LET stops == {i \in 1..Len(s) : s[i] = "."} \cup {Len(s) + 1}
             stop == CHOOSE i \in stops : \A j \in stops : i <= j
             number[i \in 0..(stop - 1)] ==
                 IF i = 0 THEN 0
                 ELSE 10 * number[i - 1] + (CHOOSE d \in 0..9 : IntToStr(d) = <<s[i]>>)
         IN  (IF stop = 1 THEN <<>> ELSE <<number[stop - 1]>>)
                \o LooseVersion(SubSeq(s, stop + 1, Len(s)))

\* a > b for two lists of ints
RECURSIVE ListGreater(_, _)
ListGreater(a, b) ==
    IF a = <<>> THEN FALSE
    ELSE IF b = <<>> THEN TRUE
    ELSE IF Head(a) # Head(b) THEN Head(a) > Head(b)
    ELSE ListGreater(Tail(a), Tail(b))

\* The response that the operation of a request passes to
\* errorUnlessResponse as expected, for the version detected when the
\* operation is called.  NoneKey: the operation raised before it added the
\* callback (command: a LooseVersion made of None or of '' has no version to
\* compare, AttributeError).
ExpectedMutantTextOrder(kind, version) ==
    CASE kind = "logoff" -> <<"G", "o", "o", "d", "b", "y", "e">>
      [] kind = "command" ->
            IF version \in {NoneKey, <<>>} THEN NoneKey
            ELSE IF LET code(t) == [i \in 1..Len(t) |->
                                       IF t[i] = "." THEN 0
                                       ELSE 1 + (CHOOSE d \in 0..9 : IntToStr(d) = <<t[i]>>)]
                    IN  ListGreater(code(version), code(<<"2", ".", "7", ".", "0">>))
            THEN vSuccess ELSE <<"F", "o", "l", "l", "o", "w", "s">>
      [] kind = "ping" -> IF version = <<"1", ".", "0">> THEN <<"P", "o", "n", "g">> ELSE vSuccess
      [] OTHER -> vSuccess

Expected(kind, version) ==
    CASE kind = "logoff" -> <<"G", "o", "o", "d", "b", "y", "e">>
      [] kind = "command" ->
            IF version \in {NoneKey, <<>>} THEN NoneKey
            ELSE IF ListGreater(LooseVersion(version), LooseVersion(<<"2", ".", "7", ".", "0">>))
            THEN vSuccess ELSE <<"F", "o", "l", "l", "o", "w", "s">>
      [] kind = "ping" -> IF version = <<"1", ".", "0">> THEN <<"P", "o", "n", "g">> ELSE vSuccess
      [] OTHER -> vSuccess

\* str.split('\r\n')
RECURSIVE SplitCRLF(_)
SplitCRLF(s) ==
    LET at == {i \in 1..(Len(s) - 1) : s[i] = "\r" /\ s[i + 1] = "\n"}
        first == CHOOSE i \in at : \A j \in at : i <= j
    IN  IF at = {} THEN <<s>>
        ELSE <<SubSeq(s, 1, first - 1)>> \o SplitCRLF(SubSeq(s, first + 2, Len(s)))

\* onResult, the callback that command adds after errorUnlessResponse
onResult(checked) ==
    IF checked.outcome # "value" \/ checked.result.tag # "message" THEN checked
    ELSE IF kOutput \notin DOMAIN checked.result.msg
    THEN [outcome |-> "fault",
          result |-> [tag |-> "KeyError", msg |-> EmptyDict, list |-> <<>>]]
    ELSE [outcome |-> "value",
          result |-> [tag |-> "lines", msg |-> EmptyDict, list |-> <<>>,
                      lines |-> SplitCRLF(checked.result.msg[kOutput])]]

\* kind: "login" (connectionMade), "send" (sendDeferred), "collect"
\* (collectDeferred), "logoff", "command", "ping" (the operations)
\* expected: the response errorUnlessResponse is told to expect
\* outcome: "pending", "value" (callback chain), "fault" (errback chain)
\* checked: what the callback errorUnlessResponse, which login and the other
\* single-response operations add to the Deferred of sendDeferred, passes on
NewRequest(kind, actionid, stopEvent, expected) ==
    [kind |-> kind, actionid |-> actionid, stopEvent |-> stopEvent, fired |-> 0,
     expected |-> expected,
     outcome |-> "pending", result |-> NoResult, cache |-> <<>>,
     checked |-> [outcome |-> "pending", result |-> NoResult]]

\* the first callback/errback of a Deferred sets its outcome
Fire(r, outcome, result) ==
    IF r.fired = 0
    THEN [r EXCEPT !.fired = 1, !.outcome = outcome, !.result = result]
    ELSE [r EXCEPT !.fired = @ + 1]

\* self.transport.loseConnection()
loseConnection(st) == [st EXCEPT !.conn = IF @ = "open" THEN "closing" ELSE @]

\* The callbacks connectionMade adds to the login Deferred, after
\* errorUnlessResponse (checked is what it passed on): onComplete for a
\* value, onFailure for a fault.  st is the part of the state a callback can
\* change.  message['response'] on what is not a dict raises TypeError in
\* onComplete, and nothing handles it.
LoginChainMutantHookAlways(st, checked) == [st EXCEPT !.hook = @ + 1]

LoginChain(st, checked) ==
    IF checked.outcome = "fault" THEN loseConnection(st)
    ELSE IF checked.result.tag # "message" THEN st
    ELSE IF checked.result.msg[kResponse] # vSuccess THEN loseConnection(st)
    ELSE [st EXCEPT !.hook = @ + 1]

\* df.callback(result) for the Deferred of sendDeferred: checkErrorResponse
\* runs first and cleans up.  A Deferred that was already fired raises
\* AlreadyCalledError, which the callers catch.
SendCallback(st, r, result) ==
    LET req == st.reqs[r]
        st1 == [st EXCEPT !.reqs[r] = Fire(req, "value", result)]
    IN  IF req.fired > 0 THEN st1
        ELSE LET passed == IF req.expected = NoneKey
                           THEN [outcome |-> "value", result |-> result]
                           ELSE errorUnlessResponse(result, req.expected)
                 checked == IF req.kind = "command" /\ req.expected # NoneKey
                            THEN onResult(passed) ELSE passed
                 st2 == [st1 EXCEPT !.cbs = cleanup(@, req.actionid),
                                    !.reqs[r].checked = checked]
             IN  IF req.kind = "login" THEN LoginChain(st2, checked) ELSE st2

\* onEvent of collectDeferred, called with a message
CollectOnEventMutantDropStop(st, r, message) ==
    LET req == st.reqs[r]
    IN  IF Get(message, kResponse) = vError
        THEN LET st1 == [st EXCEPT !.reqs[r] = Fire(req, "fault", AMICommandFailure(message))]
             IN  IF req.fired > 0 THEN st1 ELSE [st1 EXCEPT !.cbs = cleanup(@, req.actionid)]
        ELSE IF Get(message, kEvent) = req.stopEvent
        THEN LET st1 == [st EXCEPT !.reqs[r] = Fire(req, "value", ListResult(req.cache))]
             IN  IF req.fired > 0 THEN st1 ELSE [st1 EXCEPT !.cbs = cleanup(@, req.actionid)]
        ELSE [st EXCEPT !.reqs[r].cache = Append(@, message)]

CollectOnEventMutantNoAbort(st, r, message) ==
    LET req == st.reqs[r]
    IN  IF Get(message, kEvent) = req.stopEvent
        THEN LET cache == Append(req.cache, message)
                 st1 == [st EXCEPT !.reqs[r] = [Fire(req, "value", ListResult(cache))
                                                   EXCEPT !.cache = cache]]
             IN  IF req.fired > 0 THEN st1 ELSE [st1 EXCEPT !.cbs = cleanup(@, req.actionid)]
        ELSE [st EXCEPT !.reqs[r].cache = Append(@, message)]

CollectOnEvent(st, r, message) ==
    LET req == st.reqs[r]
    IN  IF Get(message, kResponse) = vError
        THEN LET st1 == [st EXCEPT !.reqs[r] = Fire(req, "fault", AMICommandFailure(message))]
             IN  IF req.fired > 0 THEN st1 ELSE [st1 EXCEPT !.cbs = cleanup(@, req.actionid)]
        ELSE IF Get(message, kEvent) = req.stopEvent
        THEN LET cache == Append(req.cache, message)
                 st1 == [st EXCEPT !.reqs[r] = [Fire(req, "value", ListResult(cache))
                                                   EXCEPT !.cache = cache]]
             IN  IF req.fired > 0 THEN st1 ELSE [st1 EXCEPT !.cbs = cleanup(@, req.actionid)]
        ELSE [st EXCEPT !.reqs[r].cache = Append(@, message)]

\* the callback registered for request r, called with a message
InvokeCallbackMutantBroadcast(st, r, message) ==
    LET st1 == IF r # 1 THEN SendCallback(st, 1, MessageResult(message)) ELSE st
    IN  IF st1.reqs[r].kind = "collect"
        THEN CollectOnEvent(st1, r, message)
        ELSE SendCallback(st1, r, MessageResult(message))

InvokeCallback(st, r, message) ==
    IF st.reqs[r].kind = "collect"
    THEN CollectOnEvent(st, r, message)
    ELSE SendCallback(st, r, MessageResult(message))

(***************************************************************************)
(* AMIProtocol: sending                                                    *)
(***************************************************************************)
\* AMIProtocol.sendMessage for a dict message given as its (key, value)
\* items: the token, the new count and the lines written
sendMessage(items, cnt) ==
    LET lowered == [i \in 1..Len(items) |-> <<Lower(items[i][1]), items[i][2]>>]
        given == {i \in 1..Len(lowered) : lowered[i][1] = kActionid}
        actionid == IF given = {} THEN generateActionId(cnt)
                    ELSE lowered[CHOOSE i \in given : TRUE][2]
        message == IF given = {} THEN Append(lowered, <<kActionid, actionid>>) ELSE lowered
    IN  [actionid |-> actionid,
         count |-> IF given = {} THEN cnt + 1 ELSE cnt,
         lines |-> [i \in 1..Len(message) |->
                       Lower(message[i][1]) \o <<":", " ">> \o message[i][2]] \o <<<<>>>>]

LoginMessage ==
    << <<Lower(kAction), <<"l", "o", "g", "i", "n">> >>,
       << <<"u", "s", "e", "r", "n", "a", "m", "e">>, <<"a", "d", "m", "i", "n">> >>,
       << <<"s", "e", "c", "r", "e", "t">>, <<"p", "w">> >> >>

\* the message of a request made by the caller, with or without a token
UserMessage(action, token) ==
    IF token = NoneKey THEN << <<kAction, action>> >>
    ELSE << <<kAction, action>>, <<kActionID, token>> >>

AMIState(conn) ==
    /\ amiConn = conn
    /\ messageCache = <<>>
    /\ actionIDCallbacks = <<>>
    /\ eventTypeCallbacks = EmptyDict
    /\ count = 0
    /\ amiVersion = NoneKey
    /\ amiReqs = <<>>
    /\ amiWire = <<>>
    /\ lastDispatch = <<>>
    /\ lostCompleted = FALSE
    /\ onConnectedCalls = 0

\* The callers reach the protocol once the connection is made (the service
\* hands it out, and so does the on_connected hook), and keep it afterwards.
Connected == amiConn \in {"open", "closing", "lost"}

\* AMIProtocol.sendDeferred / AMIProtocol.collectDeferred: send and register
IssueRequest(kind, items, stopEvent, conn) ==
    LET sent == sendMessage(items, count)
    IN  /\ amiReqs' = Append(amiReqs, NewRequest(kind, sent.actionid, stopEvent,
                                                Expected(kind, amiVersion)))
        /\ actionIDCallbacks' = Register(actionIDCallbacks, sent.actionid, Len(amiReqs) + 1)
        /\ count' = sent.count
        \* the transport discards what is written once the connection is gone
        /\ amiWire' = IF conn = "open" THEN amiWire \o sent.lines ELSE amiWire

\* AMIProtocol.connectionMade with plaintext_login: the login request
AMIConnectionMade ==
    /\ amiConn = "new"
    /\ amiConn' = "open"
    /\ IssueRequest("login", LoginMessage, NoneKey, "open")
    /\ UNCHANGED <<messageCache, eventTypeCallbacks, amiVersion, lastDispatch,
                   lostCompleted, onConnectedCalls>>

\* AMIProtocol.sendDeferred, called by the holder of a connected protocol
AMISendDeferred(token) ==
    /\ Connected
    /\ Len(amiReqs) < MaxReqs + 1
    /\ IssueRequest("send", UserMessage(<<"P", "i", "n", "g">>, token), NoneKey, amiConn)
    /\ UNCHANGED <<amiConn, messageCache, eventTypeCallbacks, amiVersion, lastDispatch,
                   lostCompleted, onConnectedCalls>>

\* AMIProtocol.logoff, AMIProtocol.command and AMIProtocol.ping, called by
\* the holder of a connected protocol
AMICall(op) ==
    /\ Connected
    /\ Len(amiReqs) < MaxReqs + 1
    /\ IssueRequest(op,
                    IF op = "command"
                    THEN << <<Lower(kAction), Lower(<<"C", "o", "m", "m", "a", "n", "d">>)>>,
                            <<Lower(<<"C", "o", "m", "m", "a", "n", "d">>), <<"c", "o", "r", "e", " ", "s", "h", "o", "w", " ", "v", "e", "r", "s", "i", "o", "n">>>> >>
                    ELSE << <<Lower(kAction), IF op = "ping" THEN <<"p", "i", "n", "g">> ELSE <<"l", "o", "g", "o", "f", "f">>>> >>,
                    NoneKey, amiConn)
    /\ UNCHANGED <<amiConn, messageCache, eventTypeCallbacks, amiVersion, lastDispatch,
                   lostCompleted, onConnectedCalls>>

\* AMIProtocol.collectDeferred
AMICollectDeferred(token) ==
    /\ Connected
    /\ Len(amiReqs) < MaxReqs + 1
    /\ IssueRequest("collect", UserMessage(vStatus, token), vStatusComplete, amiConn)
    /\ UNCHANGED <<amiConn, messageCache, eventTypeCallbacks, amiVersion, lastDispatch,
                   lostCompleted, onConnectedCalls>>

(***************************************************************************)
(* AMIProtocol: events                                                     *)
(***************************************************************************)
\* the subscriptions made in the model: handler A for Hangup, B for every event
Subscriptions == {<<vHangup, "hA">>, <<NoneKey, "hB">>}

\* the subscriptions made where the events are studied alone: two handlers
\* for Hangup, two for every event, one for another event
EventSubscriptions ==
    Subscriptions \cup {<<vHangup, "hC">>, <<NoneKey, "hD">>, <<vStatusComplete, "hE">>}

HandlersOf(etc, ev) == IF ev \in DOMAIN etc THEN etc[ev] ELSE <<>>

\* AMIProtocol.registerEvent for one event name (or None)
AMIRegisterEvent(ev, function) ==
    /\ Connected
    /\ \A i \in 1..Len(HandlersOf(eventTypeCallbacks, ev)) :
          HandlersOf(eventTypeCallbacks, ev)[i] # function
    /\ eventTypeCallbacks' =
          DictSet(eventTypeCallbacks, ev, Append(HandlersOf(eventTypeCallbacks, ev), function))
    /\ UNCHANGED <<amiConn, messageCache, actionIDCallbacks, count, amiVersion,
                   amiReqs, amiWire, lastDispatch, lostCompleted, onConnectedCalls>>

\* AMIProtocol.deregisterEvent for one event name; function "None" removes
\* every handler of the event
AMIDeregisterEvent(ev, function) ==
    /\ Connected
    /\ ev \in DOMAIN eventTypeCallbacks
    /\ LET set == SelectSeq(eventTypeCallbacks[ev], LAMBDA h : h # function)
       IN  eventTypeCallbacks' =
              IF set = <<>> \/ function = "None"
              THEN [x \in (DOMAIN eventTypeCallbacks) \ {ev} |-> eventTypeCallbacks[x]]
              ELSE [eventTypeCallbacks EXCEPT ![ev] = set]
    /\ UNCHANGED <<amiConn, messageCache, actionIDCallbacks, count, amiVersion,
                   amiReqs, amiWire, lastDispatch, lostCompleted, onConnectedCalls>>

\* the handlers that raise an exception whenever they are invoked
Raising == {"hA"}

\* for handler in handlers: try: handler(self, event); except Exception: log.
\* invoked: the handlers called, in order; raised: an exception left the loop
HandlerLoopMutantAbort(handlers) ==
    LET bad == {i \in 1..Len(handlers) : handlers[i] \in Raising}
    IN  IF bad = {} THEN [invoked |-> handlers, raised |-> FALSE]
        ELSE [invoked |-> SubSeq(handlers, 1, CHOOSE i \in bad : \A j \in bad : i <= j),
              raised |-> TRUE]

RECURSIVE HandlerLoopInvoked(_)
HandlerLoopInvoked(handlers) ==
    IF handlers = <<>> THEN <<>>
    ELSE <<Head(handlers)>> \o HandlerLoopInvoked(Tail(handlers))

HandlerLoop(handlers) == [invoked |-> HandlerLoopInvoked(handlers), raised |-> FALSE]

\* AMIProtocol.dispatchEvent, for key in (event['event'], None): the
\* handlers invoked, in order
dispatchEventMutantWildcardFirst(etc, event) ==
    HandlerLoop(HandlersOf(etc, NoneKey)).invoked
        \o HandlerLoop(HandlersOf(etc, event[kEvent])).invoked

dispatchEvent(etc, event) ==
    LET typed == HandlerLoop(HandlersOf(etc, event[kEvent]))
    IN  IF typed.raised THEN typed.invoked
        ELSE typed.invoked \o HandlerLoop(HandlersOf(etc, NoneKey)).invoked

(***************************************************************************)
(* AMIProtocol: receiving                                                  *)
(***************************************************************************)
\* AMIProtocol.dispatchIncoming after its while loop, for the message the
\* loop has built.  st holds what receiving a line can change: cache
\* (messageCache), cbs (actionIDCallbacks), reqs, conn, hook, version and
\* dispatched (what was invoked, in order: "callback" for the callback of a
\* pending request, then the handlers); etc is eventTypeCallbacks.
dispatchMessageMutantElif(st, etc, message) ==
    IF kActionid \in DOMAIN message /\ HasKey(st.cbs, message[kActionid])
    THEN [InvokeCallback(st, Lookup(st.cbs, message[kActionid]), message)
             EXCEPT !.dispatched = <<"callback">>]
    ELSE [st EXCEPT !.dispatched =
             IF kEvent \in DOMAIN message THEN dispatchEvent(etc, message) ELSE <<>>]

dispatchMessage(st, etc, message) ==
    [(IF kActionid \in DOMAIN message /\ HasKey(st.cbs, message[kActionid])
      THEN [InvokeCallback(st, Lookup(st.cbs, message[kActionid]), message)
               EXCEPT !.dispatched = <<"callback">>]
      ELSE [st EXCEPT !.dispatched = <<>>])
        EXCEPT !.dispatched = IF kEvent \in DOMAIN message
                              THEN @ \o dispatchEvent(etc, message) ELSE @]

\* AMIProtocol.dispatchIncoming: the while loop leaves the cache empty and
\* the version it detected
dispatchParsed(st, etc, parsed) ==
    dispatchMessage([st EXCEPT !.cache = <<>>, !.version = parsed.version],
                    etc, parsed.message)

dispatchIncoming(st, etc) ==
    dispatchParsed(st, etc,
                   ParseLines([message |-> EmptyDict, version |-> st.version], st.cache))

\* AMIProtocol.lineReceived
lineReceived(st, etc, line) ==
    LET st1 == [st EXCEPT !.cache = Append(@, line)]
    IN  IF Strip(line) = <<>> THEN dispatchIncoming(st1, etc) ELSE st1

\* LineOnlyReceiver.dataReceived for data made of complete lines: the lines
\* are handed to lineReceived one by one, until the transport is disconnecting
RECURSIVE dataReceived(_, _, _)
dataReceived(st, etc, lines) ==
    IF lines = <<>> \/ st.conn # "open" THEN st
    ELSE dataReceived(lineReceived(st, etc, Head(lines)), etc, Tail(lines))

\* what the handlers called for the lines received leave in the protocol
Received(st) ==
    /\ messageCache' = st.cache
    /\ actionIDCallbacks' = st.cbs
    /\ amiReqs' = st.reqs
    /\ amiConn' = st.conn
    /\ onConnectedCalls' = st.hook
    /\ amiVersion' = st.version
    /\ lastDispatch' = st.dispatched

\* The transport delivers the lines of one message.
AMIDataReceived(lines) ==
    /\ amiConn = "open"
    /\ \A r \in 1..Len(amiReqs) :
          (amiReqs[r].kind = "collect" /\ amiReqs[r].fired = 0)
          => Len(amiReqs[r].cache) < MaxCollected
    /\ Received(dataReceived([cache |-> messageCache, cbs |-> actionIDCallbacks,
                               reqs |-> amiReqs, conn |-> amiConn,
                               hook |-> onConnectedCalls, version |-> amiVersion,
                               dispatched |-> lastDispatch],
                              eventTypeCallbacks, lines))
    /\ UNCHANGED <<eventTypeCallbacks, count, amiWire, lostCompleted>>

\* The for loop of connectionLost over items, the entries the iteration has
\* still to visit; size is the size the dict had when the iteration began.
\* A dict view (Python 3) raises RuntimeError when it is advanced after the
\* dict changed size; Python 2 iterates over a list of the items.
RECURSIVE LostLoop(_, _, _, _)
LostLoop(items, st, size, views) ==
    IF views /\ Len(st.cbs) # size THEN [st |-> st, completed |-> FALSE]
    ELSE IF items = <<>> THEN [st |-> st, completed |-> TRUE]
    ELSE LET r == Head(items).req
         IN  LostLoop(Tail(items),
                      IF st.reqs[r].kind = "collect"
                      THEN st      \* onEvent: event.get raises AttributeError, logged
                      ELSE SendCallback(st, r, ConnectionDoneResult),
                      size, views)

\* what connectionLost leaves when its loop has ended (out.completed) or
\* was left by the RuntimeError, before the two clear()
Lost(out) ==
    /\ amiReqs' = out.st.reqs
    /\ onConnectedCalls' = out.st.hook
    /\ lostCompleted' = out.completed
    /\ actionIDCallbacks' = IF out.completed THEN <<>> ELSE out.st.cbs
    /\ eventTypeCallbacks' = IF out.completed THEN EmptyDict ELSE eventTypeCallbacks

\* AMIProtocol.connectionLost, under Python 3 (views) or Python 2
AMIConnectionLost(views) ==
    /\ amiConn \in {"open", "closing"}
    /\ Lost(LostLoop(actionIDCallbacks,
                     [cbs |-> actionIDCallbacks, reqs |-> amiReqs, conn |-> amiConn,
                      hook |-> onConnectedCalls],
                     Len(actionIDCallbacks), views))
    /\ amiConn' = "lost"
    /\ UNCHANGED <<messageCache, count, amiVersion, amiWire, lastDispatch>>

(***************************************************************************)
(* AMIProtocol: handlers that change the subscriptions                     *)
(***************************************************************************)
\* A handler is [f, df]: f names what it does when it is invoked, df is the
\* Deferred its closure holds (0: none).  While dispatchEvent runs
\* 'for handler in handlers', s holds the list the loop iterates (list), the
\* next index of its iterator (idx), whether that list is still the one
\* eventTypeCallbacks holds under key (attached), eventTypeCallbacks (etc),
\* the Deferreds (reqs) and the handlers invoked so far.
NoHandler == [f |-> "None", df |-> 0]

\* deregisterEvent(ev, function) called by a handler: the list is changed
\* in place, and the key deleted when the list is left empty or function
\* is None
deregisterEvent(s, key, ev, function) ==
    IF ev \notin DOMAIN s.etc THEN s
    ELSE LET set == SelectSeq(s.etc[ev], LAMBDA h : h # function)
             deleted == set = <<>> \/ function = NoHandler
         IN  [s EXCEPT !.etc = IF deleted THEN [x \in (DOMAIN s.etc) \ {ev} |-> s.etc[x]]
                                ELSE [@ EXCEPT ![ev] = set],
                       !.list = IF ev = key /\ s.attached THEN set ELSE @,
                       !.attached = IF ev = key /\ deleted THEN FALSE ELSE @]

\* registerEvent(ev, function) called by a handler: setdefault(ev, [])
\* and append, in place
registerEvent(s, key, ev, function) ==
    [s EXCEPT !.etc = DictSet(@, ev, Append(HandlersOf(@, ev), function)),
              !.list = IF ev = key /\ s.attached THEN Append(@, function) ELSE @]

\* handler(self, event).  extractValue is the closure of dbGet; the others
\* are handlers of a caller that deregister themselves (hDropSelf), another
\* handler (hDropNext), every handler of the event (hDropAll), register
\* another handler (hAdd), or leave the subscriptions alone.  An exception
\* a handler raises (KeyError for event['val'], AlreadyCalledError) is
\* caught and logged by dispatchEvent.
CallHandler(s, key, handler, event) ==
    CASE handler.f = "extractValue" ->
            IF <<"v", "a", "l">> \notin DOMAIN event THEN s
            ELSE [deregisterEvent(s, key, <<"D", "B", "G", "e", "t", "R", "e", "s", "p", "o", "n", "s", "e">>, handler)
                     EXCEPT !.reqs[handler.df] =
                                Fire(@, "value", [tag |-> "str", msg |-> EmptyDict,
                                                  list |-> <<>>, str |-> event[<<"v", "a", "l">>]])]
      [] handler.f = "hDropSelf" -> deregisterEvent(s, key, event[kEvent], handler)
      [] handler.f = "hDropNext" ->
            deregisterEvent(s, key, event[kEvent], [f |-> "hPlain", df |-> 0])
      [] handler.f = "hDropAll" -> deregisterEvent(s, key, event[kEvent], NoHandler)
      [] handler.f = "hAdd" ->
            registerEvent(s, key, event[kEvent], [f |-> "hLate", df |-> 0])
      [] OTHER -> s

\* for handler in handlers: the iterator of a list yields the item at its
\* index, as the list is when it is asked, until the index is past the end
RECURSIVE ForHandlers(_, _, _)
ForHandlers(s, key, event) ==
    IF s.idx > Len(s.list) THEN s
    ELSE CHOOSE out \in
             {ForHandlers(t, key, event) :
                 t \in {CallHandler([s EXCEPT !.idx = @ + 1,
                                              !.invoked = Append(@, s.list[s.idx])],
                                    key, s.list[s.idx], event)}} : TRUE

\* AMIProtocol.dispatchEvent with such handlers: for key in
\* (event['event'], None), the list is looked up when the key's turn comes
DispatchHandlers(s, event) ==
    LET Turn(t, key) ==
            IF key \in DOMAIN t.etc
            THEN ForHandlers([t EXCEPT !.list = t.etc[key], !.attached = TRUE, !.idx = 1],
                             key, event)
            ELSE t
    IN  CHOOSE out \in {Turn(t, NoneKey) : t \in {Turn(s, event[kEvent])}} : TRUE

\* errorResponse, the function dbGet registers for an Error response on the
\* Deferred of its sendDeferred, run by checkErrorResponse
errorResponse(s, r) ==
    [deregisterEvent(s, NoneKey, <<"D", "B", "G", "e", "t", "R", "e", "s", "p", "o", "n", "s", "e">>, [f |-> "extractValue", df |-> r + 1])
        EXCEPT !.reqs[r + 1] = Fire(@, "value", [tag |-> "None", msg |-> EmptyDict,
                                                 list |-> <<>>])]

\* AMIProtocol.dispatchIncoming where handlers change the subscriptions,
\* for the message built from the lines: st is what the callback of the
\* pending request left (for a dbGet request, checkErrorResponse calls
\* errorResponse), then dispatchEvent runs.  x.st is what receiving a line
\* can change, as it was before, x.etc is eventTypeCallbacks.
HandlersDispatched(x, st, message) ==
    LET r == IF kActionid \in DOMAIN message /\ HasKey(x.st.cbs, message[kActionid])
             THEN Lookup(x.st.cbs, message[kActionid]) ELSE 0
        s0 == [etc |-> x.etc, reqs |-> st.reqs, list |-> <<>>,
               attached |-> FALSE, idx |-> 1, invoked |-> <<>>]
        s1 == IF r > 0 /\ x.st.reqs[r].kind = "dbGet" /\ x.st.reqs[r].fired = 0
                  /\ Get(message, kResponse) = vError
              THEN errorResponse(s0, r) ELSE s0
    IN  CHOOSE y \in
            {[st |-> [st EXCEPT !.reqs = out.reqs,
                                !.dispatched = @ \o [i \in 1..Len(out.invoked) |->
                                                        out.invoked[i].f]],
              etc |-> out.etc] :
                out \in {IF kEvent \in DOMAIN message
                         THEN DispatchHandlers(s1, message) ELSE s1}} : TRUE

\* AMIProtocol.lineReceived for the lines of one message where handlers
\* change the subscriptions
HandlersReceived(x, lines) ==
    IF x.st.conn # "open" THEN x
    ELSE CHOOSE y \in
             {HandlersDispatched(x, st, message) :
                 st \in {dataReceived(x.st, EmptyDict, lines)},
                 message \in {ParseLines([message |-> EmptyDict, version |-> x.st.version],
                                         x.st.cache \o lines).message}} : TRUE

\* The transport delivers the lines of one message, or of two at once,
\* where handlers change the subscriptions.
AMIHandlersReceived(first, second) ==
    /\ amiConn = "open"
    /\ \E x \in {HandlersReceived([st |-> [cache |-> messageCache, cbs |-> actionIDCallbacks,
                                            reqs |-> amiReqs, conn |-> amiConn,
                                            hook |-> onConnectedCalls, version |-> amiVersion,
                                            dispatched |-> lastDispatch],
                                    etc |-> eventTypeCallbacks], first)} :
          \E out \in {IF second = <<>> THEN x ELSE HandlersReceived(x, second)} :
             /\ messageCache' = out.st.cache
             /\ actionIDCallbacks' = out.st.cbs
             /\ amiReqs' = out.st.reqs
             /\ amiConn' = out.st.conn
             /\ onConnectedCalls' = out.st.hook
             /\ amiVersion' = out.st.version
             /\ lastDispatch' = out.st.dispatched
             /\ eventTypeCallbacks' = out.etc
    /\ UNCHANGED <<count, amiWire, lostCompleted>>

\* AMIProtocol.dbGet: sendDeferred (with registerError), then registerEvent
\* of extractValue, whose closure holds the Deferred dbGet returns.  The
\* Deferred of sendDeferred and, after it, the Deferred returned are added
\* to the Deferreds.
AMIDbGet ==
    /\ Connected
    /\ Len(amiReqs) < 2 * (MaxReqs + 2)
    /\ LET sent == sendMessage(<< <<kAction, <<"D", "B", "G", "e", "t">>>>, <<<<"f", "a", "m", "i", "l", "y">>, <<"f">>>>,
                                  <<<<"k", "e", "y">>, <<"k">>>> >>, count)
       IN  /\ amiReqs' = amiReqs \o <<NewRequest("dbGet", sent.actionid, NoneKey, NoneKey),
                                     NewRequest("dbGetValue", sent.actionid, NoneKey, NoneKey)>>
           /\ actionIDCallbacks' = Register(actionIDCallbacks, sent.actionid, Len(amiReqs) + 1)
           /\ count' = sent.count
           /\ amiWire' = IF amiConn = "open" THEN amiWire \o sent.lines ELSE amiWire
           /\ eventTypeCallbacks' =
                 DictSet(eventTypeCallbacks, <<"D", "B", "G", "e", "t", "R", "e", "s", "p", "o", "n", "s", "e">>,
                         Append(HandlersOf(eventTypeCallbacks, <<"D", "B", "G", "e", "t", "R", "e", "s", "p", "o", "n", "s", "e">>),
                                [f |-> "extractValue", df |-> Len(amiReqs) + 2]))
    /\ UNCHANGED <<amiConn, messageCache, amiVersion, lastDispatch, lostCompleted,
                   onConnectedCalls>>

(***************************************************************************)
(* FastAGIProtocol: the values and the text of the operations              *)
(***************************************************************************)
\* The Python values the operations handle: str, int, float (counted in
\* halves, which floats hold exactly), None, bool, tuple, and chr(i), the
\* string of the one character of code i.
PyStr(s) == [t |-> "str", s |-> s]

PyInt(i) == [t |-> "int", i |-> i]

PyFloat(h) == [t |-> "float", h |-> h]

PyNone == [t |-> "none"]

PyBool(b) == [t |-> "bool", b |-> b]

PyTuple(items) == [t |-> "tuple", items |-> items]

\* what a callback leaves: a value for the next callback, or an exception
Returned(v) == [kind |-> "value", val |-> v]

Raised(exc, args) == [kind |-> "fault", exc |-> exc, args |-> args]

FAILURE_CODE == -1

\* AGICommandFailure(FAILURE_CODE, text)
CommandFailure(text) == Raised("AGICommandFailure", <<PyInt(FAILURE_CODE), PyStr(text)>>)

\* int(str): white space around, a sign, digits with single underscores
\* between them; anything else is a ValueError (ok is FALSE)
RECURSIVE DigitsValue(_, _)
DigitsValue(s, acc) ==
    IF s = <<>> THEN acc
    ELSE IF Head(s) = "_" THEN DigitsValue(Tail(s), acc)
    ELSE DigitsValue(Tail(s),
                     10 * acc + ((CHOOSE d \in 1..10 :
                                     <<"0", "1", "2", "3", "4", "5", "6", "7", "8", "9">>[d]
                                         = Head(s)) - 1))

IsDigits(s) ==
    /\ s # <<>>
    /\ \A i \in 1..Len(s) : s[i] \in Digits \cup {"_"}
    /\ s[1] # "_"
    /\ s[Len(s)] # "_"
    /\ \A i \in 1..(Len(s) - 1) : ~(s[i] = "_" /\ s[i + 1] = "_")

UnsignedInt(s) ==
    IF IsDigits(s) THEN [ok |-> TRUE, i |-> DigitsValue(s, 0)] ELSE [ok |-> FALSE, i |-> 0]

SignedInt(s) ==
    IF s # <<>> /\ Head(s) = "-"
    THEN [UnsignedInt(Tail(s)) EXCEPT !.i = 0 - @]
    ELSE IF s # <<>> /\ Head(s) = "+" THEN UnsignedInt(Tail(s))
    ELSE UnsignedInt(s)

int(s) == SignedInt(Strip(s))

\* '{}'.format(n) for an int and for a float counted in halves
Format(v) ==
    CASE v.t = "int" -> IF v.i < 0 THEN <<"-">> \o IntToStr(0 - v.i) ELSE IntToStr(v.i)
      [] v.t = "float" ->
            (IF v.h < 0 THEN <<"-">> ELSE <<>>)
                \o IntToStr((IF v.h < 0 THEN 0 - v.h ELSE v.h) \div 2)
                \o (IF v.h % 2 = 0 THEN <<".", "0">> ELSE <<".", "5">>)
      [] v.t = "str" -> v.s

\* timeout *= 1000
Times1000(v) == IF v.t = "int" THEN PyInt(v.i * 1000) ELSE PyFloat(v.h * 1000)

\* result_re = '\Aresult=(.*?)(?: (.*))?\Z': the first group is lazy, so
\* it ends at the first space; '.' matches no newline
ResultPrefix == <<"r", "e", "s", "u", "l", "t", "=">>

result_re_match(s) == StartsWith(s, ResultPrefix) /\ \A i \in 1..Len(s) : s[i] # "\n"

ResultSpaces(s) == {i \in (Len(ResultPrefix) + 1)..Len(s) : s[i] = " "}

ResultFirstSpace(s) == CHOOSE i \in ResultSpaces(s) : \A j \in ResultSpaces(s) : i <= j

result_re_group1(s) ==
    IF ResultSpaces(s) = {} THEN SubSeq(s, Len(ResultPrefix) + 1, Len(s))
    ELSE SubSeq(s, Len(ResultPrefix) + 1, ResultFirstSpace(s) - 1)

\* the second group cut at the next space, as a lazy second group would be
result_re_group2MutantLazy(s) ==
    IF ResultSpaces(s) = {} THEN PyNone
    ELSE LET rest == SubSeq(s, ResultFirstSpace(s) + 1, Len(s))
             cut == {i \in 1..Len(rest) : rest[i] = " "}
         IN  PyStr(IF cut = {} THEN rest
                   ELSE SubSeq(rest, 1, (CHOOSE i \in cut : \A j \in cut : i <= j) - 1))

result_re_group2(s) ==
    IF ResultSpaces(s) = {} THEN PyNone
    ELSE PyStr(SubSeq(s, ResultFirstSpace(s) + 1, Len(s)))

(***************************************************************************)
(* FastAGIProtocol: the callbacks of the operations                        *)
(***************************************************************************)
\* FastAGIProtocol.checkFailure(result, failure)
checkFailure(v, failure) ==
    IF v.t # "str" THEN Raised("TypeError", <<>>)
    ELSE IF ~result_re_match(v.s) THEN CommandFailure(v.s)
    ELSE IF ~int(result_re_group1(v.s)).ok THEN Raised("ValueError", <<>>)
    \* an int never equals a str
    ELSE IF failure.t = "int" /\ failure.i = int(result_re_group1(v.s)).i
    THEN CommandFailure(v.s)
    ELSE Returned(v)

\* FastAGIProtocol.resultAsInt: the ValueError of int() is caught
resultAsInt(v) ==
    IF v.t # "str" THEN Raised("TypeError", <<>>)
    ELSE IF result_re_match(v.s) /\ int(result_re_group1(v.s)).ok
    THEN Returned(PyInt(int(result_re_group1(v.s)).i))
    ELSE CommandFailure(v.s)

\* FastAGIProtocol.secondResultItem
secondResultItem(v) ==
    IF v.t # "str" THEN Raised("TypeError", <<>>)
    ELSE IF ~result_re_match(v.s) THEN CommandFailure(v.s)
    ELSE IF ~int(result_re_group1(v.s)).ok THEN Raised("ValueError", <<>>)
    ELSE Returned(result_re_group2(v.s))

\* FastAGIProtocol.resultPlusTimeoutFlag
resultPlusTimeoutFlag(v) ==
    IF v.t # "str" THEN Raised("TypeError", <<>>)
    ELSE IF ~result_re_match(v.s) THEN CommandFailure(v.s)
    ELSE IF result_re_group1(v.s) = <<"-", "1">> THEN CommandFailure(v.s)
    ELSE Returned(PyTuple(<<PyStr(result_re_group1(v.s)),
                            PyBool(result_re_group2(v.s) = PyStr(<<"t", "i", "m", "e", "o", "u", "t">>))>>))

\* chr(i)
chr(i) == IF i \in 0..1114111 THEN Returned([t |-> "chr", i |-> i]) ELSE Raised("ValueError", <<>>)

\* FastAGIProtocol.checkWaitForDigit
checkWaitForDigit(v) ==
    IF v.t # "str" THEN Raised("TypeError", <<>>)
    ELSE IF ~result_re_match(v.s) THEN CommandFailure(v.s)
    ELSE IF result_re_group1(v.s) = <<"-", "1">> THEN CommandFailure(v.s)
    ELSE IF result_re_group1(v.s) = <<"0">> THEN Returned(PyTuple(<<PyNone, PyBool(TRUE)>>))
    ELSE IF ~int(result_re_group1(v.s)).ok THEN Raised("ValueError", <<>>)
    ELSE IF chr(int(result_re_group1(v.s)).i).kind = "fault"
    THEN chr(int(result_re_group1(v.s)).i)
    ELSE Returned(PyTuple(<<chr(int(result_re_group1(v.s)).i).val, PyBool(FALSE)>>))

\* str.split(' ', 2): the pieces around the first two spaces
AllSpaces(s) == {i \in 1..Len(s) : s[i] = " "}

NthSpace(s, n) ==
    CHOOSE i \in AllSpaces(s) : Cardinality({j \in AllSpaces(s) : j <= i}) = n

Split2(s) ==
    IF Cardinality(AllSpaces(s)) = 0 THEN <<s>>
    ELSE IF Cardinality(AllSpaces(s)) = 1
    THEN <<SubSeq(s, 1, NthSpace(s, 1) - 1), SubSeq(s, NthSpace(s, 1) + 1, Len(s))>>
    ELSE <<SubSeq(s, 1, NthSpace(s, 1) - 1),
           SubSeq(s, NthSpace(s, 1) + 1, NthSpace(s, 2) - 1),
           SubSeq(s, NthSpace(s, 2) + 1, Len(s))>>

\* str.strip('()')
RECURSIVE StripParens(_)
StripParens(s) ==
    IF s # <<>> /\ Head(s) \in {"(", ")"} THEN StripParens(Tail(s))
    ELSE IF s # <<>> /\ s[Len(s)] \in {"(", ")"} THEN StripParens(SubSeq(s, 1, Len(s) - 1))
    ELSE s

\* FastAGIProtocol.onRecordingComplete for the three pieces of the line
RecordingPieces(digit, exitType, endposStuff) ==
    IF ~int(digit).ok THEN Raised("ValueError", <<>>)
    ELSE IF ~StartsWith(Strip(endposStuff), <<"e", "n", "d", "p", "o", "s", "=">>) THEN Raised("ValueError", <<>>)
    ELSE IF ~int(SubSeq(Strip(endposStuff), 8, Len(Strip(endposStuff)))).ok
    THEN Raised("ValueError", <<>>)
    ELSE Returned(PyTuple(<<PyInt(int(digit).i), PyStr(StripParens(exitType)),
                            PyInt(int(SubSeq(Strip(endposStuff), 8,
                                             Len(Strip(endposStuff)))).i)>>))

\* FastAGIProtocol.onRecordingComplete
onRecordingComplete(v) ==
    IF v.t # "str" THEN Raised("AttributeError", <<>>)
    ELSE IF Len(Split2(v.s)) # 3 THEN Raised("ValueError", <<>>)
    ELSE RecordingPieces(Split2(v.s)[1], Split2(v.s)[2], Split2(v.s)[3])

\* returnValue of databaseGet and getVariable: resultLine[1:-1]
returnValue(v) ==
    IF v.t # "str" THEN Raised("TypeError", <<>>)
    ELSE Returned(PyStr(SubSeq(v.s, 2, Len(v.s) - 1)))

\* a callback added to the Deferred of sendCommand: the method and, for
\* checkFailure, the value of failure
Callback(f, failure) == [f |-> f, failure |-> failure]

ApplyCallback(cb, v) ==
    CASE cb.f = "checkFailure" -> checkFailure(v, cb.failure)
      [] cb.f = "resultAsInt" -> resultAsInt(v)
      [] cb.f = "secondResultItem" -> secondResultItem(v)
      [] cb.f = "resultPlusTimeoutFlag" -> resultPlusTimeoutFlag(v)
      [] cb.f = "checkWaitForDigit" -> checkWaitForDigit(v)
      [] cb.f = "onRecordingComplete" -> onRecordingComplete(v)
      [] cb.f = "returnValue" -> returnValue(v)

\* Deferred: the callbacks run in order while they return values; the
\* operations add no errback, so an exception reaches the caller
RECURSIVE RunChain(_, _)
RunChain(chain, res) ==
    IF chain = <<>> THEN res
    ELSE RunChain(Tail(chain),
                  IF res.kind = "value" THEN ApplyCallback(Head(chain), res.val) ELSE res)

(***************************************************************************)
(* FastAGIProtocol: the operations                                         *)
(***************************************************************************)
\* What an operation does when it is called: it raises before sendCommand
\* (before), or calls sendCommand(command) and then raises (after) or adds
\* the callbacks of chain and returns the Deferred.
Sends(command, chain) == [before |-> "none", command |-> command, after |-> "none", chain |-> chain]

RaisesBefore(exc) == [before |-> exc, command |-> <<>>, after |-> "none", chain |-> <<>>]

checkDefault == Callback("checkFailure", PyInt(-1))

checkStr(s) == Callback("checkFailure", PyStr(s))

asInt == Callback("resultAsInt", PyNone)

\* FastAGIProtocol.answer
answer == Sends(<<"A", "N", "S", "W", "E", "R">>, <<checkDefault, asInt>>)

\* FastAGIProtocol.setCallerID(1)
setCallerID == Sends(<<"S", "E", "T", " ", "C", "A", "L", "L", "E", "R", "I", "D", " ", "1">>, <<asInt>>)

\* FastAGIProtocol.databaseDel('f', 'k')
databaseDel == Sends(<<"D", "A", "T", "A", "B", "A", "S", "E", " ", "D", "E", "L", " ", "\"", "f", "\"", " ", "\"", "k", "\"">>, <<checkStr(<<"0">>), asInt>>)

\* FastAGIProtocol.databaseSet('f', 'k', 'v')
databaseSet == Sends(<<"D", "A", "T", "A", "B", "A", "S", "E", " ", "P", "U", "T", " ", "\"", "f", "\"", " ", "\"", "k", "\"", " ", "\"", "v", "\"">>, <<checkStr(<<"0">>), asInt>>)

\* FastAGIProtocol.databaseDeltree('f', keyTree): the name keytree is not
\* defined, and self has no addCallback
databaseDeltree(keyTree) ==
    IF keyTree # PyNone THEN RaisesBefore("NameError")
    ELSE [before |-> "none",
          command |-> <<"D", "A", "T", "A", "B", "A", "S", "E", " ", "D", "E", "L", "T", "R", "E", "E", " ", "\"", "f", "\"">>,
          after |-> "AttributeError", chain |-> <<>>]

\* FastAGIProtocol.databaseGet('f', 'k')
databaseGet ==
    Sends(<<"D", "A", "T", "A", "B", "A", "S", "E", " ", "G", "E", "T", " ", "\"", "f", "\"", " ", "\"", "k", "\"">>,
          <<checkStr(<<"0">>), Callback("secondResultItem", PyNone),
            Callback("returnValue", PyNone)>>)

\* FastAGIProtocol.getVariable('x')
getVariable ==
    Sends(<<"G", "E", "T", " ", "V", "A", "R", "I", "A", "B", "L", "E", " ", "\"", "x", "\"">>,
          <<checkStr(<<"0">>), Callback("secondResultItem", PyNone),
            Callback("returnValue", PyNone)>>)

\* FastAGIProtocol.tddMode(True)
tddMode == Sends(<<"T", "D", "D", " ", "M", "O", "D", "E", " ", "O", "N">>, <<checkDefault, checkStr(<<"0">>), asInt>>)

\* FastAGIProtocol.execute(application), without options
execute(application) ==
    Sends(<<"E", "X", "E", "C", " ", "\"">> \o application \o <<"\"">>, <<checkStr(<<"-", "2">>)>>)

\* FastAGIProtocol.playback('f'): execute with the whole command as application
playback ==
    [execute(<<"P", "L", "A", "Y", "B", "A", "C", "K", " ", "\"", "f", "\"", " ", "\"", "a", "n", "s", "w", "e", "r", "\"">>) EXCEPT !.chain = @ \o <<checkDefault, asInt>>]

\* ' {}'.format(timeout) after timeout *= 1000, when timeout is not None
OptionalTimeout(timeout) ==
    IF timeout = PyNone THEN <<>> ELSE <<" ">> \o Format(Times1000(timeout))

\* FastAGIProtocol.getData('f', timeout)
getData(timeout) ==
    Sends(<<"G", "E", "T", " ", "D", "A", "T", "A", " ", "\"", "f", "\"", " ">> \o Format(Times1000(timeout)),
          <<Callback("resultPlusTimeoutFlag", PyNone)>>)

\* FastAGIProtocol.receiveChar(timeout)
receiveChar(timeout) ==
    Sends(<<"R", "E", "C", "E", "I", "V", "E", " ", "C", "H", "A", "R">> \o OptionalTimeout(timeout),
          <<checkDefault, Callback("resultPlusTimeoutFlag", PyNone)>>)

\* FastAGIProtocol.receiveText(timeout)
receiveText(timeout) == Sends(<<"R", "E", "C", "E", "I", "V", "E", " ", "T", "E", "X", "T">> \o OptionalTimeout(timeout), <<checkDefault>>)

\* FastAGIProtocol.recordFile('f', 'wav', '#', timeout)
recordFile(timeout) ==
    Sends(<<"R", "E", "C", "O", "R", "D", " ", "F", "I", "L", "E", " ", "\"", "f", "\"", " ", "\"", "w", "a", "v", "\"", " ", "#", " ">> \o Format(Times1000(timeout)) \o <<" ", "B", "E", "E", "P">>,
          <<Callback("onRecordingComplete", PyNone)>>)

\* FastAGIProtocol.waitForDigit(timeout)
waitForDigit(timeout) ==
    Sends(<<"W", "A", "I", "T", " ", "F", "O", "R", " ", "D", "I", "G", "I", "T", " ">> \o Format(Times1000(timeout)),
          <<Callback("checkWaitForDigit", PyNone)>>)

\* FastAGIProtocol.sayXXX, which sayAlpha, sayDate, sayDigits, sayNumber,
\* sayPhonetic and sayTime call: '{} {} "{}"' % (...) is a TypeError
sayXXX == RaisesBefore("TypeError")

\* the calls made in the model: the operation and its time argument
Invocation(op, arg) == [op |-> op, arg |-> arg]

Untimed == {"answer", "setCallerID", "databaseDel", "databaseSet", "databaseGet",
            "getVariable", "tddMode", "execute", "playback", "sayDigits"}

Invocations ==
    {Invocation(op, PyNone) : op \in Untimed \cup {"databaseDeltree", "receiveChar", "receiveText"}}
      \cup {Invocation("databaseDeltree", PyStr(<<"k">>))}
      \cup {Invocation(op, t) : op \in {"getData", "receiveChar", "recordFile", "waitForDigit"},
                                t \in {PyInt(2), PyFloat(4)}}
      \cup {Invocation("recordFile", PyInt(-1)), Invocation("receiveText", PyFloat(1))}

Invoke(inv) ==
    CASE inv.op = "answer" -> answer
      [] inv.op = "setCallerID" -> setCallerID
      [] inv.op = "databaseDel" -> databaseDel
      [] inv.op = "databaseSet" -> databaseSet
      [] inv.op = "databaseDeltree" -> databaseDeltree(inv.arg)
      [] inv.op = "databaseGet" -> databaseGet
      [] inv.op = "getVariable" -> getVariable
      [] inv.op = "tddMode" -> tddMode
      [] inv.op = "execute" -> execute(<<"a", "p", "p">>)
      [] inv.op = "playback" -> playback
      [] inv.op = "getData" -> getData(inv.arg)
      [] inv.op = "receiveChar" -> receiveChar(inv.arg)
      [] inv.op = "receiveText" -> receiveText(inv.arg)
      [] inv.op = "recordFile" -> recordFile(inv.arg)
      [] inv.op = "waitForDigit" -> waitForDigit(inv.arg)
      [] inv.op = "sayDigits" -> sayXXX

\* the replies of the switch to the operations: '200 ' and a result line, or 510
ResultLines ==
    {<<"r", "e", "s", "u", "l", "t", "=", "0">>, <<"r", "e", "s", "u", "l", "t", "=", "1">>, <<"r", "e", "s", "u", "l", "t", "=", "-", "1">>, <<"r", "e", "s", "u", "l", "t", "=", "-", "2">>, <<"r", "e", "s", "u", "l", "t", "=", "x">>, <<"r", "e", "s", "u", "l", "t", "=", "4", "9">>,
     <<"r", "e", "s", "u", "l", "t", "=", "1", " ", "(", "v", ")">>, <<"r", "e", "s", "u", "l", "t", "=", "5", " ", "(", "d", "t", "m", "f", ")", " ", "e", "n", "d", "p", "o", "s", "=", "1", "2">>, <<"f", "o", "o">>}

OpsLines == {<<"2", "0", "0", " ">> \o r : r \in ResultLines} \cup {Line510}

Pending == [kind |-> "pending"]

\* a call of an operation: df is the Deferred of its sendCommand (0: none),
\* raised the exception the call ended with ("none": it returned the
\* Deferred, with chain added), final what the caller's Deferred has come to
Called(inv, plan) ==
    /\ IF plan.before # "none" THEN UNCHANGED agiVars ELSE AGISendCommand(plan.command)
    /\ agiCalls' = Append(agiCalls,
            [op |-> inv.op, arg |-> inv.arg,
             df |-> IF plan.before = "none" THEN Len(agiDfs) + 1 ELSE 0,
             raised |-> IF plan.before # "none" THEN plan.before ELSE plan.after,
             chain |-> plan.chain, final |-> Pending])
    /\ UNCHANGED parses

\* what the Deferred of sendCommand was fired with
FiredResult(d) ==
    IF d.outcome = "ok" THEN Returned(PyStr(d.payload.data))
    ELSE Raised(d.payload.exc, <<PyStr(d.payload.code), PyStr(d.payload.data)>>)

\* the callbacks of a call run when its Deferred is fired
Settle(call, dfs) ==
    IF call.df > 0 /\ call.raised = "none" /\ call.final = Pending /\ dfs[call.df].fired > 0
    THEN [call EXCEPT !.final = RunChain(call.chain, FiredResult(dfs[call.df]))]
    ELSE call

\* the holder of a protocol that is ready calls an operation
AGICall(inv) ==
    /\ onConnectCalls > 0
    /\ Len(agiCalls) < MaxCalls
    /\ Called(inv, Invoke(inv))

\* FastAGIProtocol.lineReceived where the operations are studied: the blank
\* line that ends the variables, then the replies to the commands sent
OpsLineReceived(line) ==
    /\ IF reading_variables THEN line = LineBlank
       ELSE line # LineBlank /\ pendingMessages # <<>>
    /\ AGILineReceived(line)
    /\ agiCalls' = [c \in 1..Len(agiCalls) |-> Settle(agiCalls[c], agiDfs')]
    /\ UNCHANGED parses

\* FastAGIProtocol.connectionLost where the operations are studied
OpsConnectionLost ==
    /\ AGIConnectionLost
    /\ agiCalls' = [c \in 1..Len(agiCalls) |-> Settle(agiCalls[c], agiDfs')]
    /\ UNCHANGED parses

(***************************************************************************)
(* InSequence                                                              *)
(***************************************************************************)
\* What an appended function does when it is invoked: it returns a value,
\* raises, or returns a Deferred that fires later.
Behaviours == {"value", "raise", "deferred"}

\* the value action id produces when it succeeds
ResultOf(id) == 100 + id

SeqState(built) ==
    /\ seqBuilt = built
    /\ actions = <<>>
    /\ results = <<>>
    /\ finalDF = <<>>
    /\ seqAppended = 0
    /\ started = <<>>
    /\ inflight = {}
    /\ seqFailed = {}

\* finalDF.callback / finalDF.errback
FireFinal(d, outcome, res, reason) ==
    IF d.fired = 0
    THEN [fired |-> 1, outcome |-> outcome, results |-> res, reason |-> reason]
    ELSE [d EXCEPT !.fired = @ + 1]

\* InSequence.recordResult
recordResultMutantPrepend(st, result) == [st EXCEPT !.results = <<result>> \o @]

recordResult(st, result) == [st EXCEPT !.results = Append(@, result)]

\* InSequence.onActionFailure: the failure of action id reaches finalDF f
onActionFailureMutantNoResults(st, id, f) ==
    [st EXCEPT !.final[f] = FireFinal(@, "err", <<>>, id),
               !.failed = @ \cup {id}]

onActionFailure(st, id, f) ==
    [st EXCEPT !.final[f] = FireFinal(@, "err", st.results, id),
               !.failed = @ \cup {id}]

\* InSequence.onActionSuccess for finalDF f.  st holds actions, results,
\* final, started, inflight and failed.  An action that returns a value or
\* raises has its callbacks run at once; one that returns an unfired
\* Deferred leaves the chain waiting.
RECURSIVE onActionSuccessMutantEager(_, _)
onActionSuccessMutantEager(st, f) ==
    IF st.actions # <<>>
    THEN LET a == Head(st.actions)
             st1 == [st EXCEPT !.actions = Tail(@), !.started = Append(@, a.id)]
         IN  CASE a.beh = "value" ->
                    onActionSuccessMutantEager(recordResult(st1, ResultOf(a.id)), f)
               [] a.beh = "raise" -> onActionFailure(st1, a.id, f)
               [] a.beh = "deferred" ->
                    onActionSuccessMutantEager(
                        [st1 EXCEPT !.inflight = @ \cup {[id |-> a.id, final |-> f]}], f)
    ELSE [st EXCEPT !.final[f] = FireFinal(@, "ok", st.results, 0)]

RECURSIVE onActionSuccess(_, _)
onActionSuccess(st, f) ==
    IF st.actions # <<>>
    THEN LET a == Head(st.actions)
             st1 == [st EXCEPT !.actions = Tail(@), !.started = Append(@, a.id)]
         IN  CASE a.beh = "value" -> onActionSuccess(recordResult(st1, ResultOf(a.id)), f)
               [] a.beh = "raise" -> onActionFailure(st1, a.id, f)
               [] a.beh = "deferred" ->
                    [st1 EXCEPT !.inflight = @ \cup {[id |-> a.id, final |-> f]}]
    ELSE [st EXCEPT !.final[f] = FireFinal(@, "ok", st.results, 0)]

SeqRec == [actions |-> actions, results |-> results, final |-> finalDF,
           started |-> started, inflight |-> inflight, failed |-> seqFailed]

SeqUpdate(st) ==
    /\ actions' = st.actions
    /\ results' = st.results
    /\ finalDF' = st.final
    /\ started' = st.started
    /\ inflight' = st.inflight
    /\ seqFailed' = st.failed

\* InSequence.append, before the sequence is run
SeqAppend(beh) ==
    /\ seqBuilt
    /\ finalDF = <<>>
    /\ seqAppended < MaxActions
    /\ seqAppended' = seqAppended + 1
    /\ actions' = Append(actions, [id |-> seqAppended + 1, beh |-> beh])
    /\ UNCHANGED <<seqBuilt, results, finalDF, started, inflight, seqFailed>>

\* InSequence.__call__ / _doSequence; the object is single-shot
SeqCall ==
    /\ seqBuilt
    /\ finalDF = <<>>
    /\ SeqUpdate(onActionSuccess(
                    [SeqRec EXCEPT !.final =
                        Append(@, [fired |-> 0, outcome |-> "pending",
                                   results |-> <<>>, reason |-> 0])],
                    Len(finalDF) + 1))
    /\ UNCHANGED <<seqBuilt, seqAppended>>

\* a call that runs again every action appended
SeqCallAgainMutantRerun ==
    /\ seqBuilt
    /\ finalDF # <<>>
    /\ Len(finalDF) <= MaxCalls + 1
    /\ SeqUpdate(onActionSuccess(
                    [SeqRec EXCEPT !.final =
                        Append(@, [fired |-> 0, outcome |-> "pending",
                                   results |-> <<>>, reason |-> 0]),
                                   !.actions = [i \in 1..seqAppended |->
                                                   [id |-> i, beh |-> "value"]]],
                    Len(finalDF) + 1))
    /\ UNCHANGED <<seqBuilt, seqAppended>>

\* InSequence.__call__ on an object that was called before: nothing in
\* the class keeps it from being called again, while a run is in progress
\* or after it
SeqCallAgain ==
    /\ seqBuilt
    /\ finalDF # <<>>
    /\ Len(finalDF) <= MaxCalls + 1
    /\ SeqUpdate(onActionSuccess(
                    [SeqRec EXCEPT !.final =
                        Append(@, [fired |-> 0, outcome |-> "pending",
                                   results |-> <<>>, reason |-> 0])],
                    Len(finalDF) + 1))
    /\ UNCHANGED <<seqBuilt, seqAppended>>

\* The Deferred an action returned fires: with a result (recordResult, then
\* onActionSuccess) or with a failure (onActionFailure).
SeqActionFired(w, ok) ==
    /\ w \in inflight
    /\ LET st == [SeqRec EXCEPT !.inflight = @ \ {w}]
       IN  SeqUpdate(IF ok
                     THEN onActionSuccess(recordResult(st, ResultOf(w.id)), w.final)
                     ELSE onActionFailure(st, w.id, w.final))
    /\ UNCHANGED <<seqBuilt, seqAppended>>

(***************************************************************************)
(* FastAGIProtocol.jumpOnError                                             *)
(***************************************************************************)
\* The command of action id of the sequence jumpOnError builds: setContext,
\* setExtension, setPriority with the variables read when the connection
\* was made and difference = 100 (action 4 is finish, which sends nothing)
JumpCommandMutantPriorityFirst(id) ==
    CASE id = 3 -> <<"S", "E", "T", " ", "C", "O", "N", "T", "E", "X", "T", " ">> \o variables[<<"a", "g", "i", "_", "c", "o", "n", "t", "e", "x", "t">>]
      [] id = 2 -> <<"S", "E", "T", " ", "E", "X", "T", "E", "N", "S", "I", "O", "N", " ">> \o variables[<<"a", "g", "i", "_", "e", "x", "t", "e", "n", "s", "i", "o", "n">>]
      [] id = 1 -> <<"S", "E", "T", " ", "P", "R", "I", "O", "R", "I", "T", "Y", " ">>
                      \o Format(PyInt(int(variables[<<"a", "g", "i", "_", "p", "r", "i", "o", "r", "i", "t", "y">>]).i + 100))

JumpCommand(id) ==
    CASE id = 1 -> <<"S", "E", "T", " ", "C", "O", "N", "T", "E", "X", "T", " ">> \o variables[<<"a", "g", "i", "_", "c", "o", "n", "t", "e", "x", "t">>]
      [] id = 2 -> <<"S", "E", "T", " ", "E", "X", "T", "E", "N", "S", "I", "O", "N", " ">> \o variables[<<"a", "g", "i", "_", "e", "x", "t", "e", "n", "s", "i", "o", "n">>]
      [] id = 3 -> <<"S", "E", "T", " ", "P", "R", "I", "O", "R", "I", "T", "Y", " ">>
                      \o Format(PyInt(int(variables[<<"a", "g", "i", "_", "p", "r", "i", "o", "r", "i", "t", "y">>]).i + 100))

\* What the callbacks of the sequence leave when they have brought it to
\* st, with dfs and pending the Deferreds and the FIFO before them: the
\* action that was started and is in flight has sent its command
\* (sendCommand), and finish, once started, has called loseConnection.
JumpRun(dfs, pending, replies, st) ==
    LET sent == {w.id : w \in st.inflight} \ {w.id : w \in inflight}
    IN  /\ SeqUpdate(st)
        /\ agiDfs' = IF sent = {} THEN dfs ELSE Append(dfs, NewDeferred(replies))
        /\ pendingMessages' = IF sent = {} THEN pending ELSE Append(pending, Len(dfs) + 1)
        /\ agiWire' = IF sent = {} \/ agiConn # "open" THEN agiWire
                      ELSE Append(agiWire, JumpCommand(CHOOSE id \in sent : TRUE))
        /\ agiConn' = IF agiConn = "open" /\ Len(st.started) = 4 THEN "closing" ELSE agiConn

\* FastAGIProtocol.jumpOnError(reason, forErrors = ...), called by the
\* holder of the protocol with a failure; matches: forErrors is not given,
\* or the failure is of one of its types (else reason.trap raises it again)
JumpOnError(matches) ==
    /\ onConnectCalls > 0
    /\ agiConn \in {"open", "lost"}
    /\ agiCalls = <<>>
    /\ LET raised ==
              IF ~matches THEN "Failure"
              ELSE IF ~({<<"a", "g", "i", "_", "c", "o", "n", "t", "e", "x", "t">>, <<"a", "g", "i", "_", "e", "x", "t", "e", "n", "s", "i", "o", "n">>, <<"a", "g", "i", "_", "p", "r", "i", "o", "r", "i", "t", "y">>}
                           \subseteq DOMAIN variables) THEN "KeyError"
              ELSE IF ~int(variables[<<"a", "g", "i", "_", "p", "r", "i", "o", "r", "i", "t", "y">>]).ok THEN "ValueError"
              ELSE "none"
       IN  /\ agiCalls' = <<[op |-> "jumpOnError", arg |-> PyBool(matches), df |-> 0,
                            raised |-> raised, chain |-> <<>>, final |-> Pending]>>
           /\ IF raised # "none"
              THEN UNCHANGED <<seqVars, agiConn, agiDfs, pendingMessages, agiWire>>
              ELSE /\ seqBuilt' = TRUE
                   /\ seqAppended' = 4
                   /\ JumpRun(agiDfs, pendingMessages, agiReplies,
                          onActionSuccess(
                              [SeqRec EXCEPT
                                  !.actions = <<[id |-> 1, beh |-> "deferred"],
                                                [id |-> 2, beh |-> "deferred"],
                                                [id |-> 3, beh |-> "deferred"],
                                                [id |-> 4, beh |-> "value"]>>,
                                  !.final = <<[fired |-> 0, outcome |-> "pending",
                                               results |-> <<>>, reason |-> 0]>>],
                              1))
    /\ UNCHANGED <<reading_variables, variables, lostConnectionDeferred, agiWaiters,
                   onCloseReturned, agiLog, agiReplies, agiDropped, agiLines,
                   onConnectCalls, parses>>

\* FastAGIProtocol.lineReceived for the reply to the command of the action
\* in flight: the Deferred of the command is fired, resultAsInt runs, then
\* recordResult and onActionSuccess, or onActionFailure
JumpLineReceived(line) ==
    /\ agiConn = "open"
    /\ ~reading_variables
    /\ line_re_match(line)
    /\ pendingMessages # <<>>
    /\ inflight # {}
    /\ LET p == PopFirst(pendingMessages)
           w == CHOOSE x \in inflight : TRUE
           ok == line_re_code(line) = <<"2", "0", "0">>
       IN  JumpRun([agiDfs EXCEPT ![p.df] =
                       IF ok
                       THEN FireDeferred(@, "ok", [NoPayload EXCEPT !.data = line_re_data(line)],
                                         agiReplies + 1)
                       ELSE FireDeferred(@, "err",
                                         AGICommandFailure(line_re_code(line),
                                                           line_re_data(line)),
                                         agiReplies + 1)],
                   p.rest, agiReplies + 1,
                   IF ok /\ resultAsInt(PyStr(line_re_data(line))).kind = "value"
                   THEN onActionSuccess(recordResult([SeqRec EXCEPT !.inflight = @ \ {w}],
                                                     ResultOf(w.id)), w.final)
                   ELSE onActionFailure([SeqRec EXCEPT !.inflight = @ \ {w}], w.id, w.final))
    /\ agiLog' = Append(agiLog, Head(pendingMessages))
    /\ agiReplies' = agiReplies + 1
    /\ agiLines' = agiLines + 1
    /\ UNCHANGED <<seqBuilt, seqAppended, reading_variables, variables,
                   lostConnectionDeferred, agiWaiters, onCloseReturned, agiDropped,
                   onConnectCalls, opVars>>

\* FastAGIProtocol.connectionLost while the sequence may be waiting: the
\* errback of the command in flight reaches onActionFailure
JumpConnectionLost ==
    /\ AGIConnectionLost
    /\ SeqUpdate(IF inflight = {} THEN SeqRec
                 ELSE LET w == CHOOSE x \in inflight : TRUE
                      IN  onActionFailure([SeqRec EXCEPT !.inflight = {}], w.id, w.final))
    /\ UNCHANGED <<seqBuilt, seqAppended, opVars>>

(***************************************************************************)
(* Exceptions that leave lineReceived                                      *)
(***************************************************************************)
\* FastAGIProtocol.lineReceived for a line that is not UTF-8: line.decode
\* raises UnicodeDecodeError before anything else is done
AGILineNotDecoded ==
    /\ agiConn = "open"
    /\ agiLines < MaxAGILines
    /\ agiLines' = agiLines + 1
    /\ escapedFrom' = escapedFrom \cup {"FastAGIProtocol decode"}
    /\ UNCHANGED <<agiConn, reading_variables, variables, pendingMessages,
                   lostConnectionDeferred, agiDfs, agiWaiters, onCloseReturned, agiLog,
                   agiWire, agiReplies, agiDropped, onConnectCalls>>
    /\ UNCHANGED <<amiVars, seqVars, opVars>>

\* FastAGIProtocol.lineReceived for the blank line that ends the variables,
\* with an on_connect hook that raises: the call is not guarded
AGIHookRaises ==
    /\ reading_variables
    /\ AGILineReceived(LineBlank)
    /\ escapedFrom' = escapedFrom \cup {"FastAGIProtocol on_connect"}
    /\ UNCHANGED <<amiVars, seqVars, opVars>>

\* AMIProtocol.lineReceived for a line that is not UTF-8: line.decode raises
\* UnicodeDecodeError before the line is appended to messageCache
AMILineNotDecoded ==
    /\ amiConn = "open"
    /\ escapedFrom' = escapedFrom \cup {"AMIProtocol decode"}
    /\ UNCHANGED <<agiVars, amiVars, seqVars, opVars>>

(***************************************************************************)
(* Specifications                                                          *)
(***************************************************************************)
InitAGI == AGIState("new") /\ AMIState("none") /\ SeqState(FALSE)

InitAMI == AGIState("none") /\ AMIState("new") /\ SeqState(FALSE)

InitSeq == AGIState("none") /\ AMIState("none") /\ SeqState(TRUE)

NextAGI ==
    /\ \/ AGIConnectionMade
       \/ \E line \in AGILines : AGILineReceived(line)
       \/ \E c \in Commands : AGISendCommand(c)
       \/ AGIOnClose
       \/ AGIConnectionLost
    /\ UNCHANGED <<amiVars, seqVars, opVars, excVars>>

NextAMI ==
    /\ \/ AMIConnectionMade
       \/ \E m \in Responses \cup Events : AMIDataReceived(WireLines(m))
       \/ \E t \in {NoneKey, X1} : AMISendDeferred(t)
       \/ AMICollectDeferred(NoneKey)
       \/ \E s \in Subscriptions : AMIRegisterEvent(s[1], s[2])
       \/ \E s \in Subscriptions : AMIDeregisterEvent(s[1], s[2])
       \/ \E views \in BOOLEAN : AMIConnectionLost(views)
    /\ UNCHANGED <<agiVars, seqVars, opVars, excVars>>

NextSeq ==
    /\ \/ \E beh \in Behaviours : SeqAppend(beh)
       \/ SeqCall
       \/ \E w \in inflight, ok \in BOOLEAN : SeqActionFired(w, ok)
    /\ UNCHANGED <<agiVars, amiVars, opVars, excVars>>

SpecAGI == InitAGI /\ [][NextAGI]_vars

SpecAMI == InitAMI /\ [][NextAMI]_vars

SpecSeq == InitSeq /\ [][NextSeq]_vars

\* a management connection whose holder only subscribes to events
NextEvents ==
    /\ \/ AMIConnectionMade
       \/ \E m \in Responses \cup Events : AMIDataReceived(WireLines(m))
       \/ \E s \in EventSubscriptions : AMIRegisterEvent(s[1], s[2])
       \/ \E s \in EventSubscriptions : AMIDeregisterEvent(s[1], s[2])
       \/ \E views \in BOOLEAN : AMIConnectionLost(views)
    /\ UNCHANGED <<agiVars, seqVars, opVars, excVars>>

SpecEvents == InitAMI /\ [][NextEvents]_vars

\* a connection of FastAGIProtocol whose holder calls the operations
NextOps ==
    /\ \/ AGIConnectionMade /\ UNCHANGED opVars
       \/ \E line \in OpsLines \cup {LineBlank} : OpsLineReceived(line)
       \/ \E inv \in Invocations : AGICall(inv)
       \/ OpsConnectionLost
    /\ UNCHANGED <<amiVars, seqVars, excVars>>

SpecOps == InitAGI /\ [][NextOps]_vars

\* a connection of either protocol that also receives lines that are not
\* UTF-8, and whose on_connect hook may raise
NextRobust ==
    \/ NextAGI
    \/ NextAMI
    \/ AGILineNotDecoded
    \/ AGIHookRaises
    \/ AMILineNotDecoded

SpecRobust == (InitAGI \/ InitAMI) /\ [][NextRobust]_vars

\* lines without ':' that the manager may send inside a message: text, the
\* end of the output of a command, the banner with the protocol version
NoColonLines == {<<"j", "u", "n", "k">>, END_DATA, VERSION_PREFIX \o <<"/", "1", ".", "0">>}

\* the lines of message m with the line x after the first of them
WireLinesWith(m, x) == <<Head(WireLines(m)), x>> \o Tail(WireLines(m))

\* a connection of either protocol that receives unexpected lines: the
\* management connection has its login request and its subscribers
NextUnexpected ==
    \/ NextAGI
    \/ /\ \/ AMIConnectionMade
          \/ \E m \in Responses \cup Events : AMIDataReceived(WireLines(m))
          \/ \E m \in Responses \cup Events, x \in NoColonLines :
                AMIDataReceived(WireLinesWith(m, x))
          \/ \E s \in Subscriptions : AMIRegisterEvent(s[1], s[2])
          \/ \E views \in BOOLEAN : AMIConnectionLost(views)
       /\ UNCHANGED <<agiVars, seqVars, opVars, excVars>>

SpecUnexpected == (InitAGI \/ InitAMI) /\ [][NextUnexpected]_vars

\* the lines of a message that arrive one at a time: fields whose keys
\* differ in case and in white space, a value that holds a ':', the blank
\* line and a line of white space
ReassemblyLines ==
    {<<"A", "c", "t", "i", "o", "n", "I", "D", ":", " ", "u", "-", "1">>, <<"R", "e", "s", "p", "o", "n", "s", "e", ":", " ", "S", "u", "c", "c", "e", "s", "s">>, <<" ", "R", "E", "S", "P", "O", "N", "S", "E", " ", ":", "b", ":", "c", " ">>, <<"K", "e", "y", ":", "v">>,
     <<"k", "e", "y", ":", " ", "w", " ">>, <<>>, <<" ">>}

\* AMIProtocol.lineReceived for one line that the transport delivers
AMILineReceived(line) ==
    /\ Strip(line) # <<>> => Len(messageCache) < MaxBuffered
    /\ AMIDataReceived(<<line>>)

\* a management connection that receives a message line by line
NextReassembly ==
    /\ \/ AMIConnectionMade
       \/ \E line \in ReassemblyLines : AMILineReceived(line)
       \/ \E views \in BOOLEAN : AMIConnectionLost(views)
    /\ UNCHANGED <<agiVars, seqVars, opVars, excVars>>

SpecReassembly == InitAMI /\ [][NextReassembly]_vars

\* the versions the manager announces in its banner, and the banner alone
Versions == {<<"1", ".", "0">>, <<"2", ".", "7", ".", "0">>, <<"2", ".", "1", "0", ".", "1">>, <<"5", ".", "0", ".", "1">>}

VersionBanners == {VERSION_PREFIX \o <<"/">> \o v : v \in Versions} \cup {VERSION_PREFIX}

\* the responses to the login request
LoginReplies == {m \in Responses : m.token = generateActionId(0)}

\* the responses to the first request made after the login request
OpReplies ==
    [key : {<<"R">> \o Tail(kResponse)},
     value : {<<"G", "o", "o", "d", "b", "y", "e">>, <<"F", "o", "l", "l", "o", "w", "s">>, <<"P", "o", "n", "g">>, vSuccess, vError},
     token : {generateActionId(1)}]

\* a management connection whose holder calls logoff, command and ping
NextVersions ==
    /\ \/ AMIConnectionMade
       \/ \E m \in LoginReplies : AMIDataReceived(WireLines(m))
       \/ \E m \in LoginReplies, b \in VersionBanners : AMIDataReceived(WireLinesWith(m, b))
       \/ \E op \in {"logoff", "command", "ping"} : AMICall(op)
       \/ \E m \in OpReplies : AMIDataReceived(WireLines(m))
       \/ \E m \in OpReplies : AMIDataReceived(WireLinesWith(m, <<"O", "u", "t", "p", "u", "t", ":", " ", "a">>))
       \/ \E views \in BOOLEAN : AMIConnectionLost(views)
    /\ UNCHANGED <<agiVars, seqVars, opVars, excVars>>

SpecVersions == InitAMI /\ [][NextVersions]_vars

\* the variables the switch sends before jumpOnError can be called, and the
\* replies it gives to the commands
JumpVariables == {<<"a", "g", "i", "_", "c", "o", "n", "t", "e", "x", "t", ":", " ", "c">>, <<"a", "g", "i", "_", "e", "x", "t", "e", "n", "s", "i", "o", "n", ":", " ", "e">>, <<"a", "g", "i", "_", "p", "r", "i", "o", "r", "i", "t", "y", ":", " ", "1">>}

JumpReplies == {Line200, Line510, <<"2", "0", "0", " ", "r", "e", "s", "u", "l", "t", "=", "-", "1">>, <<"2", "0", "0", " ", "d", "o", "n", "e">>}

\* a connection of FastAGIProtocol whose holder calls jumpOnError
NextJump ==
    /\ \/ AGIConnectionMade /\ UNCHANGED <<seqVars, opVars>>
       \/ /\ reading_variables
          /\ \E line \in JumpVariables \cup {LineBlank} : AGILineReceived(line)
          /\ UNCHANGED <<seqVars, opVars>>
       \/ \E matches \in BOOLEAN : JumpOnError(matches)
       \/ \E line \in JumpReplies : JumpLineReceived(line)
       \/ JumpConnectionLost
    /\ UNCHANGED <<amiVars, excVars>>

SpecJump == InitAGI /\ [][NextJump]_vars

\* the callbacks that parse a result line, applied to lines one at a time
ParserCodes == {0, 49, -2, -1}

ParserData == {<<"(", "v", ")">>, <<"(", "a", " ", "b", ")", " ", "c">>, <<" ", "x", " ">>, <<>>}

ParserLines ==
    {ResultPrefix \o Format(PyInt(n)) : n \in ParserCodes}
        \cup {ResultPrefix \o Format(PyInt(n)) \o <<" ">> \o d : n \in ParserCodes, d \in ParserData}
        \cup {<<"r", "e", "s", "u", "l", "t">>, <<"r", "e", "s", "u", "l", "t", "=", "x", " ", "(", "v", ")">>, <<"2", "0", "0", " ", "r", "e", "s", "u", "l", "t", "=", "1">>}

ParserCallbacks == {"checkFailure", "resultAsInt", "secondResultItem"}

\* a callback of FastAGIProtocol is run with a line; checkFailure with
\* its default failure = -1
Parse(f, line) ==
    /\ Len(parses) < MaxParses
    /\ parses' = Append(parses, [f |-> f, line |-> line,
                                 out |-> ApplyCallback(Callback(f, PyInt(-1)), PyStr(line))])
    /\ UNCHANGED <<agiVars, agiCalls, amiVars, seqVars, excVars>>

NextParser == \E f \in ParserCallbacks, line \in ParserLines : Parse(f, line)

SpecParser == InitAGI /\ [][NextParser]_vars

\* AMIProtocol.collectDeferred where the aggregations in flight together
\* are studied: the holder makes two requests after the login
AMICollectTogether ==
    /\ Connected
    /\ Len(amiReqs) < 3
    /\ IssueRequest("collect", UserMessage(vStatus, NoneKey), vStatusComplete, amiConn)
    /\ UNCHANGED <<amiConn, messageCache, eventTypeCallbacks, amiVersion, lastDispatch,
                   lostCompleted, onConnectedCalls>>

\* the messages the manager sends to the aggregations: responses and events
\* with the token of either, events with no token
CollectMessages ==
    [key : {<<"R">> \o Tail(kResponse)}, value : {vSuccess, vError},
     token : {generateActionId(n) : n \in 1..2}]
        \cup [key : {<<"E">> \o Tail(kEvent)}, value : {vStatusComplete, vHangup},
              token : {generateActionId(n) : n \in 1..2} \cup {NoneKey}]

\* a management connection whose holder starts aggregations
NextCollect ==
    /\ \/ AMIConnectionMade
       \/ AMICollectTogether
       \/ \E m \in CollectMessages : AMIDataReceived(WireLines(m))
    /\ UNCHANGED <<agiVars, seqVars, opVars, excVars>>

SpecCollect == InitAMI /\ [][NextCollect]_vars

\* the 'val' the manager holds for the dbGet request made k-th
DbGetValue(k) == <<"v">> \o IntToStr(k)

\* what the manager sends for the dbGet request made k-th: the response
\* 'Error', or the response 'Success' and the event DBGetResponse with the
\* token of the request and the val
DbGetResponse(k, v) ==
    WireLines([key |-> <<"R">> \o Tail(kResponse), value |-> v, token |-> generateActionId(k)])

DbGetEvent(k) ==
    WireLinesWith([key |-> <<"E">> \o Tail(kEvent), value |-> <<"D", "B", "G", "e", "t", "R", "e", "s", "p", "o", "n", "s", "e">>,
                   token |-> generateActionId(k)],
                  KeyValue(<<"V", "a", "l">>, DbGetValue(k)))

\* a management connection whose holder calls dbGet; the manager answers
\* the requests that are pending, each once, in any order
NextDbGet ==
    /\ \/ AMIConnectionMade
       \/ AMIDbGet
       \/ \E m \in LoginReplies : AMIHandlersReceived(WireLines(m), <<>>)
       \/ \E k \in 1..(MaxReqs + 2) :
             /\ HasKey(actionIDCallbacks, generateActionId(k))
             /\ \/ AMIHandlersReceived(DbGetResponse(k, vError), <<>>)
                \/ AMIHandlersReceived(DbGetResponse(k, vSuccess), DbGetEvent(k))
    /\ UNCHANGED <<agiVars, seqVars, opVars, excVars>>

SpecDbGet == InitAMI /\ [][NextDbGet]_vars

\* the subscriptions of a holder whose handlers change the subscriptions:
\* five handlers for Hangup, one for every event
HandlerSubscriptions ==
    {<<vHangup, [f |-> h, df |-> 0]>> :
        h \in {"hPlain", "hDropSelf", "hDropNext", "hDropAll", "hAdd"}}
        \cup {<<NoneKey, [f |-> "hAny", df |-> 0]>>}

\* a management connection whose holder subscribes such handlers
NextHandlers ==
    /\ \/ AMIConnectionMade
       \/ \E s \in HandlerSubscriptions : AMIRegisterEvent(s[1], s[2])
       \/ /\ Len(HandlersOf(eventTypeCallbacks, vHangup)) <= MaxHandlers
          /\ AMIHandlersReceived(WireLines([key |-> <<"E">> \o Tail(kEvent),
                                            value |-> vHangup, token |-> NoneKey]), <<>>)
    /\ UNCHANGED <<agiVars, seqVars, opVars, excVars>>

SpecHandlers == InitAMI /\ [][NextHandlers]_vars

\* AMIProtocol.sendDeferred for a message that holds the token X1 its
\* caller chose, where requests that share a token are studied: the holder
\* makes one request more than elsewhere
AMISendSupplied ==
    /\ Connected
    /\ Len(amiReqs) < MaxReqs + 2
    /\ IssueRequest("send", UserMessage(<<"P", "i", "n", "g">>, X1), NoneKey, amiConn)
    /\ UNCHANGED <<amiConn, messageCache, eventTypeCallbacks, amiVersion, lastDispatch,
                   lostCompleted, onConnectedCalls>>

\* a management connection whose holder supplies the token of its requests
NextSupplied ==
    /\ \/ AMIConnectionMade
       \/ AMISendSupplied
       \/ \E m \in Responses : AMIDataReceived(WireLines(m))
       \/ \E views \in BOOLEAN : AMIConnectionLost(views)
    /\ UNCHANGED <<agiVars, seqVars, opVars, excVars>>

SpecSupplied == InitAMI /\ [][NextSupplied]_vars

\* a sequence whose holder calls it more than once
NextRecall ==
    /\ \/ \E beh \in Behaviours : SeqAppend(beh)
       \/ SeqCall
       \/ SeqCallAgain
       \/ \E w \in inflight, ok \in BOOLEAN : SeqActionFired(w, ok)
    /\ UNCHANGED <<agiVars, amiVars, opVars, excVars>>

SpecRecall == InitSeq /\ [][NextRecall]_vars

\* a connection of either protocol
SpecEngines == (InitAGI \/ InitAMI) /\ [][NextAGI \/ NextAMI]_vars

(***************************************************************************)
(* Properties                                                              *)
(***************************************************************************)
\* C1: replies resolve commands in send order.  No command is resolved
\* while an earlier one is pending, every reply that found a pending command
\* resolved exactly one, and as long as no reply found the FIFO empty the
\* k-th reply line resolved exactly the k-th command sent.
C1_FifoReplies ==
    /\ \A i, j \in 1..Len(agiDfs) : (i < j /\ agiDfs[j].fired > 0) => agiDfs[i].fired > 0
    /\ Cardinality({i \in 1..Len(agiDfs) : agiDfs[i].by > 0}) = agiReplies - agiDropped
    /\ agiDropped = 0 =>
          \A k \in 1..agiReplies :
              k <= Len(agiDfs) /\ agiDfs[k].fired = 1 /\ agiDfs[k].by = k

\* three commands sent before any reply, resolved by the replies 1, 2, 3
C1_Witness ==
    /\ Len(agiDfs) = 3
    /\ \A k \in 1..3 : agiDfs[k].sentAt = 0 /\ agiDfs[k].by = k

\* C2: a message of the manager that carries the token t of a pending
\* single-response request resolves the request registered under t, with the
\* mapping of lowercased keys to values, removes t from the pending map and
\* leaves every other request and every other entry as it was.
C2_Correlation ==
    [][\A m \in Responses \cup Events :
          LET t == m.token
              r == Lookup(actionIDCallbacks, t)
              mapping == (kActionid :> t) @@
                         ((IF m \in Responses THEN kResponse ELSE kEvent) :> m.value)
          IN  (/\ HasKey(actionIDCallbacks, t)
               /\ amiReqs[r].kind \in {"send", "login"}
               /\ amiReqs[r].fired = 0
               /\ AMIDataReceived(WireLines(m)))
              => /\ amiReqs'[r].fired = 1
                 /\ amiReqs'[r].outcome = "value"
                 /\ amiReqs'[r].result = MessageResult(mapping)
                 /\ \A q \in (1..Len(amiReqs)) \ {r} : amiReqs'[q] = amiReqs[q]
                 /\ actionIDCallbacks' = SelectSeq(actionIDCallbacks, LAMBDA e : e.key # t)
      ]_vars

\* the request sent with token x-1 is resolved by 'Response: Success',
\* 'ActionID: x-1', '' while the login request is still pending
C2_Witness ==
    /\ Len(amiReqs) = 2
    /\ amiReqs[1].fired = 0
    /\ HasKey(actionIDCallbacks, amiReqs[1].actionid)
    /\ amiReqs[2].actionid = X1
    /\ amiReqs[2].outcome = "value"
    /\ amiReqs[2].result = MessageResult((kResponse :> vSuccess) @@ (kActionid :> X1))

\* C3: no Deferred of a request is fired more than once; a command that was
\* resolved is no longer in the FIFO and a request that was resolved is no
\* longer in the pending map.
C3_AtMostOnce ==
    /\ \A i \in 1..Len(agiDfs) : agiDfs[i].fired <= 1
    /\ \A i \in 1..Len(pendingMessages) : agiDfs[pendingMessages[i]].fired = 0
    /\ \A r \in 1..Len(amiReqs) : amiReqs[r].fired <= 1
    /\ \A i \in 1..Len(actionIDCallbacks) : amiReqs[actionIDCallbacks[i].req].fired = 0

\* a single-response request was resolved by a message and the connection is
\* still open for messages that bear its token again
C3_Witness ==
    /\ amiConn = "open"
    /\ \E r \in 1..Len(amiReqs) :
          /\ amiReqs[r].kind = "send"
          /\ amiReqs[r].fired = 1
          /\ amiReqs[r].result.tag = "message"
          /\ ~HasKey(actionIDCallbacks, amiReqs[r].actionid)

\* C4: connectionLost fails every pending command with ConnectionDone, in
\* send order, leaves the FIFO empty and fires the waiter of onClose; onClose
\* always returns the same waiter, which is fired at most once.
C4_Teardown ==
    /\ [][(agiConn = "open" /\ agiConn' = "lost") =>
             /\ pendingMessages' = <<>>
             /\ agiLog' = agiLog \o pendingMessages
             /\ \A i \in 1..Len(pendingMessages) :
                   /\ i > 1 => pendingMessages[i - 1] < pendingMessages[i]
                   /\ agiDfs'[pendingMessages[i]].fired = 1
                   /\ agiDfs'[pendingMessages[i]].outcome = "err"
                   /\ agiDfs'[pendingMessages[i]].payload = ConnectionDone
             /\ lostConnectionDeferred # 0 => agiWaiters'[lostConnectionDeferred] = 1
         ]_vars
    /\ [](/\ Cardinality(onCloseReturned) <= 1
          /\ \A w \in 1..Len(agiWaiters) : agiWaiters[w] <= 1)

\* the connection was lost with two commands pending and a waiter registered
C4_Witness ==
    /\ agiConn = "lost"
    /\ Len(agiDfs) >= 2
    /\ agiDfs[1].by = -1
    /\ agiDfs[2].by = -1
    /\ agiWaiters = <<1>>

\* C5: connectionLost resolves every request pending via sendDeferred with
\* a ConnectionDone that reaches the caller as a failure.
C5_LostFaultsRequests ==
    [][(amiConn \in {"open", "closing"} /\ amiConn' = "lost") =>
          \A i \in 1..Len(actionIDCallbacks) :
              LET r == actionIDCallbacks[i].req
              IN  amiReqs[r].kind \in {"send", "login"} =>
                     /\ amiReqs'[r].fired = 1
                     /\ amiReqs'[r].outcome = "fault"
                     /\ amiReqs'[r].result = ConnectionDoneResult
      ]_vars

\* C6: connectionLost resolves every pending collectDeferred request with a
\* ConnectionDone failure.
C6_LostFaultsCollect ==
    [][(amiConn \in {"open", "closing"} /\ amiConn' = "lost") =>
          \A i \in 1..Len(actionIDCallbacks) :
              LET r == actionIDCallbacks[i].req
              IN  amiReqs[r].kind = "collect" =>
                     /\ amiReqs'[r].fired = 1
                     /\ amiReqs'[r].outcome = "fault"
      ]_vars

\* C7: connectionLost leaves the pending map and the subscription map empty.
C7_LostClearsMaps ==
    [][(amiConn \in {"open", "closing"} /\ amiConn' = "lost") =>
          /\ actionIDCallbacks' = <<>>
          /\ eventTypeCallbacks' = EmptyDict
      ]_vars

\* C8: the actions are invoked in the order appended, and only the action
\* invoked last can be waiting for its result: no two are in flight together.
C8_Sequential ==
    /\ started = [i \in 1..Len(started) |-> i]
    /\ Cardinality(inflight) <= 1
    /\ \A w \in inflight : w.id = Len(started)

\* the third action is in flight after the first two gave their results
C8_Witness ==
    /\ results = <<ResultOf(1), ResultOf(2)>>
    /\ inflight = {[id |-> 3, final |-> 1]}
    /\ actions # <<>>

\* C9: once an action has failed, the outcome is a failure fired once, whose
\* reason is the first action that failed and whose results are those of the
\* actions before it, in order; no action after it is invoked.
C9_FailFast ==
    seqFailed # {} =>
        LET k == CHOOSE x \in seqFailed : \A y \in seqFailed : x <= y
        IN  /\ Len(finalDF) = 1
            /\ finalDF[1].fired = 1
            /\ finalDF[1].outcome = "err"
            /\ finalDF[1].reason = k
            /\ finalDF[1].results = [i \in 1..(k - 1) |-> ResultOf(i)]
            /\ started = [i \in 1..k |-> i]
            /\ inflight = {}
            /\ Len(actions) = seqAppended - k

\* of three actions the second failed: one result, the third never invoked
C9_Witness ==
    /\ seqAppended = 3
    /\ seqFailed = {2}
    /\ finalDF[1].results = <<ResultOf(1)>>
    /\ started = <<1, 2>>
    /\ Len(actions) = 1

\* C10: when the sequence was run and every action has given its result
\* without a failure, the outcome is a success fired once with the results
\* of all the actions in the order appended; a success is never fired while
\* an action is still to run or in flight.
C10_Success ==
    /\ \A f \in 1..Len(finalDF) : finalDF[f].fired <= 1
    /\ (finalDF # <<>> /\ seqFailed = {} /\ inflight = {}) =>
          /\ finalDF[1].fired = 1
          /\ finalDF[1].outcome = "ok"
          /\ finalDF[1].results = [i \in 1..seqAppended |-> ResultOf(i)]
    /\ \A f \in 1..Len(finalDF) :
          finalDF[f].outcome = "ok" => inflight = {} /\ actions = <<>>

\* three actions, the last of them asynchronous, all succeeded
C10_Witness ==
    /\ seqAppended = 3
    /\ finalDF # <<>>
    /\ finalDF[1].outcome = "ok"
    /\ Len(finalDF[1].results) = 3

\* C11: once the variables are read, a reply line of three digits, white
\* space and data resolves the oldest pending command: with code 200 it
\* succeeds with the data as payload, with any other code it fails with an
\* AGICommandFailure that carries the code and the data.
C11_ReplyMapping ==
    [][/\ (AGILineReceived(Line200) /\ ~reading_variables /\ pendingMessages # <<>>) =>
             LET d == agiDfs'[Head(pendingMessages)]
             IN  /\ d.fired = 1
                 /\ d.outcome = "ok"
                 /\ d.payload.exc = "none"
                 /\ d.payload.data = <<"r", "e", "s", "u", "l", "t", "=", "0">>
                 /\ pendingMessages' = Tail(pendingMessages)
       /\ (AGILineReceived(Line510) /\ ~reading_variables /\ pendingMessages # <<>>) =>
             LET d == agiDfs'[Head(pendingMessages)]
             IN  /\ d.fired = 1
                 /\ d.outcome = "err"
                 /\ d.payload.exc = "AGICommandFailure"
                 /\ d.payload.code = <<"5", "1", "0">>
                 /\ d.payload.data = <<"I", "n", "v", "a", "l", "i", "d">>
                 /\ pendingMessages' = Tail(pendingMessages)
      ]_vars

\* the first command succeeded with "result=0", the second failed with 510
C11_Witness ==
    /\ Len(agiDfs) >= 2
    /\ agiDfs[1].outcome = "ok"
    /\ agiDfs[1].payload.data = <<"r", "e", "s", "u", "l", "t", "=", "0">>
    /\ agiDfs[2].outcome = "err"
    /\ agiDfs[2].payload.code = <<"5", "1", "0">>

\* C12: a reply or a message changes no request but the one it resolves:
\* a reply line touches only the oldest pending command, a message only the
\* request registered under its token, so a command fault (a reply that is
\* not 200, a response that is not the expected one) reaches that request
\* alone.  Only the loss of the connection resolves several in one step.
C12_FaultLocality ==
    [][/\ \A line \in AGILines :
             AGILineReceived(line) =>
                /\ Len(agiDfs') = Len(agiDfs)
                /\ \A i \in 1..Len(agiDfs) :
                      (pendingMessages = <<>> \/ i # Head(pendingMessages))
                         => agiDfs'[i] = agiDfs[i]
       /\ \A m \in Responses \cup Events :
             \/ /\ Len(amiReqs') = Len(amiReqs)
                /\ \A q \in 1..Len(amiReqs) :
                      (~HasKey(actionIDCallbacks, m.token) \/ q # Lookup(actionIDCallbacks, m.token))
                         => amiReqs'[q] = amiReqs[q]
             \/ ~AMIDataReceived(WireLines(m))
       /\ Cardinality({i \in 1..Len(agiDfs) : agiDfs[i].fired = 0 /\ agiDfs'[i].fired > 0}) > 1
             => agiConn = "open" /\ agiConn' = "lost"
       /\ Cardinality({q \in 1..Len(amiReqs) : amiReqs[q].fired = 0 /\ amiReqs'[q].fired > 0}) > 1
             => amiConn \in {"open", "closing"} /\ amiConn' = "lost"
      ]_vars

\* the response 'Error' failed the check of the second request while the
\* login request is still pending
C12_Witness ==
    /\ Len(amiReqs) = 2
    /\ amiReqs[1].fired = 0
    /\ HasKey(actionIDCallbacks, amiReqs[1].actionid)
    /\ amiReqs[2].kind = "send"
    /\ amiReqs[2].checked.outcome = "fault"
    /\ amiReqs[2].checked.result.tag = "AMICommandFailure"

\* C13: a handler runs to its end before a reply can be delivered, so what
\* a reply finds is the state the sending handler leaves.  Whenever a command
\* line is written, its Deferred is the newest entry of the FIFO and is not
\* fired; whenever the lines of a message are written, they carry the token,
\* and the pending map holds that token for the new, unfired request.
C13_RegisterBeforeSend ==
    [][/\ agiWire' # agiWire =>
             /\ Len(agiWire') = Len(agiWire) + 1
             /\ Len(agiDfs') = Len(agiDfs) + 1
             /\ pendingMessages' = Append(pendingMessages, Len(agiDfs'))
             /\ agiDfs'[Len(agiDfs')].fired = 0
       /\ amiWire' # amiWire =>
             LET new == SubSeq(amiWire', Len(amiWire) + 1, Len(amiWire'))
                 r == Len(amiReqs')
                 t == amiReqs'[r].actionid
             IN  /\ SubSeq(amiWire', 1, Len(amiWire)) = amiWire
                 /\ Len(amiReqs') = Len(amiReqs) + 1
                 /\ \E i \in 1..(Len(new) - 1) : new[i] = KeyValue(kActionid, t)
                 /\ new[Len(new)] = <<>>
                 /\ HasKey(actionIDCallbacks', t)
                 /\ Lookup(actionIDCallbacks', t) = r
                 /\ amiReqs'[r].fired = 0
      ]_vars

\* the request with the token x-1 of the caller is on the wire and pending
C13_Witness ==
    /\ Len(amiReqs) = 2
    /\ amiReqs[2].actionid = X1
    /\ amiReqs[2].fired = 0
    /\ HasKey(actionIDCallbacks, X1)
    /\ Lookup(actionIDCallbacks, X1) = 2
    /\ \E i \in 1..Len(amiWire) : amiWire[i] = KeyValue(kActionid, X1)

\* C14: for one completed message, the callback of the pending request
\* registered under its token is invoked first (when there is one), and the
\* subscribers are invoked after it whenever the message has an 'event'
\* field, correlated or not; a message without 'event' reaches no subscriber.
C14_DispatchOrder ==
    [][\A m \in Responses \cup Events :
          LET correlated == HasKey(actionIDCallbacks, m.token)
              subscribers == IF m \in Events
                             THEN HandlersOf(eventTypeCallbacks, m.value)
                                     \o HandlersOf(eventTypeCallbacks, NoneKey)
                             ELSE <<>>
          IN  \/ /\ lastDispatch' = (IF correlated THEN <<"callback">> ELSE <<>>) \o subscribers
                 /\ correlated =>
                       LET r == Lookup(actionIDCallbacks, m.token)
                       IN  amiReqs[r].fired = 0 => amiReqs'[r] # amiReqs[r]
              \/ ~AMIDataReceived(WireLines(m))
      ]_vars

\* an event that bears the token of a pending request resolved the request
\* and then reached the wildcard subscriber
C14_Witness ==
    /\ lastDispatch = <<"callback", "hB">>
    /\ \E r \in 1..Len(amiReqs) :
          /\ amiReqs[r].kind = "send"
          /\ amiReqs[r].result.tag = "message"
          /\ kEvent \in DOMAIN amiReqs[r].result.msg

\* C15: registerEvent appends the handler to the list of its event, so a
\* list is in registration order; an event of type T invokes the handlers of
\* the list of T in that order, then those of the wildcard list in that
\* order, and no handler of another list.
C15_EventOrder ==
    [][/\ \A s \in EventSubscriptions :
             AMIRegisterEvent(s[1], s[2]) =>
                /\ eventTypeCallbacks'[s[1]] = Append(HandlersOf(eventTypeCallbacks, s[1]), s[2])
                /\ \A T \in (DOMAIN eventTypeCallbacks) \ {s[1]} :
                      eventTypeCallbacks'[T] = eventTypeCallbacks[T]
       /\ \A m \in Events :
             AMIDataReceived(WireLines(m)) =>
                LET invoked == SelectSeq(lastDispatch', LAMBDA h : h # "callback")
                IN  /\ invoked = HandlersOf(eventTypeCallbacks, m.value)
                                    \o HandlersOf(eventTypeCallbacks, NoneKey)
                    /\ \A T \in (DOMAIN eventTypeCallbacks) \ {m.value, NoneKey} :
                          \A i \in 1..Len(eventTypeCallbacks[T]) :
                             \A j \in 1..Len(invoked) : invoked[j] # eventTypeCallbacks[T][i]
      ]_vars

\* Hangup with C then A registered for it, D then B for every event, and E
\* for another event
C15_Witness ==
    /\ lastDispatch = <<"hC", "hA", "hD", "hB">>
    /\ vStatusComplete \in DOMAIN eventTypeCallbacks
    /\ eventTypeCallbacks[vHangup] = <<"hC", "hA">>

\* C16: when a handler raises during the dispatch of an event, the handlers
\* after it in the dispatch order are still invoked, the subscription map is
\* as it was, and the pending map and the requests are as the correlation of
\* the message alone leaves them.
C16_HandlerIsolation ==
    [][\A m \in Events :
          LET order == HandlersOf(eventTypeCallbacks, m.value)
                          \o HandlersOf(eventTypeCallbacks, NoneKey)
              invoked == SelectSeq(lastDispatch', LAMBDA h : h # "callback")
          IN  (/\ \E i \in 1..Len(order) : order[i] \in Raising
               /\ AMIDataReceived(WireLines(m)))
              => /\ Len(invoked) = Len(order)
                 /\ \A i, j \in 1..Len(order) :
                       (order[i] \in Raising /\ j > i) => invoked[j] = order[j]
                 /\ eventTypeCallbacks' = eventTypeCallbacks
                 /\ actionIDCallbacks' = SelectSeq(actionIDCallbacks, LAMBDA e : e.key # m.token)
                 /\ ~HasKey(actionIDCallbacks, m.token) => amiReqs' = amiReqs
      ]_vars

\* A, which raises, was invoked first for a Hangup; C and B still ran, with
\* the login request pending as before
C16_Witness ==
    /\ lastDispatch = <<"hA", "hC", "hB">>
    /\ eventTypeCallbacks[vHangup] = <<"hA", "hC">>
    /\ Len(actionIDCallbacks) = 1

\* C17: a message for a pending collectDeferred request that is neither an
\* 'Error' response nor the stop event is added to what the request has
\* accumulated and leaves it pending; the stop event resolves it with the
\* list of the messages in arrival order, the stop event last, and removes
\* its token from the pending map.  The request is resolved at most once.
C17_CollectUntilStop ==
    /\ [][\A m \in Responses \cup Events :
             LET t == m.token
                 r == Lookup(actionIDCallbacks, t)
                 mapping == (kActionid :> t) @@
                            ((IF m \in Responses THEN kResponse ELSE kEvent) :> m.value)
             IN  (/\ HasKey(actionIDCallbacks, t)
                  /\ amiReqs[r].kind = "collect"
                  /\ amiReqs[r].fired = 0
                  /\ ~(m \in Responses /\ m.value = vError)
                  /\ AMIDataReceived(WireLines(m)))
                 => IF m \in Events /\ m.value = vStatusComplete
                    THEN /\ amiReqs'[r].fired = 1
                         /\ amiReqs'[r].outcome = "value"
                         /\ amiReqs'[r].result = ListResult(Append(amiReqs[r].cache, mapping))
                         /\ ~HasKey(actionIDCallbacks', t)
                    ELSE /\ amiReqs'[r] = [amiReqs[r] EXCEPT !.cache = Append(@, mapping)]
                         /\ actionIDCallbacks' = actionIDCallbacks
         ]_vars
    /\ [](\A r \in 1..Len(amiReqs) : amiReqs[r].kind = "collect" => amiReqs[r].fired <= 1)

\* a response 'Success' and then the stop event: a list of two
C17_Witness ==
    \E r \in 1..Len(amiReqs) :
        /\ amiReqs[r].kind = "collect"
        /\ amiReqs[r].outcome = "value"
        /\ Len(amiReqs[r].result.list) = 2
        /\ amiReqs[r].result.list[1][kResponse] = vSuccess
        /\ amiReqs[r].result.list[2][kEvent] = vStatusComplete
        /\ ~HasKey(actionIDCallbacks, amiReqs[r].actionid)

\* C18: a response 'Error' for a pending collectDeferred request resolves it
\* with an AMICommandFailure that carries the message and removes its token
\* from the pending map; what was accumulated before is not delivered.
C18_CollectAbort ==
    [][\A m \in Responses :
          LET t == m.token
              r == Lookup(actionIDCallbacks, t)
              mapping == (kActionid :> t) @@ (kResponse :> vError)
          IN  (/\ m.value = vError
               /\ HasKey(actionIDCallbacks, t)
               /\ amiReqs[r].kind = "collect"
               /\ amiReqs[r].fired = 0
               /\ AMIDataReceived(WireLines(m)))
              => /\ amiReqs'[r].fired = 1
                 /\ amiReqs'[r].outcome = "fault"
                 /\ amiReqs'[r].result = AMICommandFailure(mapping)
                 /\ amiReqs'[r].result.list = <<>>
                 /\ ~HasKey(actionIDCallbacks', t)
      ]_vars

\* an 'Error' after one message had been accumulated
C18_Witness ==
    \E r \in 1..Len(amiReqs) :
        /\ amiReqs[r].kind = "collect"
        /\ amiReqs[r].outcome = "fault"
        /\ amiReqs[r].result.tag = "AMICommandFailure"
        /\ Len(amiReqs[r].cache) = 1

\* C19: errorUnlessResponse, the check the single-response operations add
\* to their request, passes on unchanged a correlated message whose
\* 'response' is the expected literal and raises an AMICommandFailure that
\* carries the whole message when it is another; the literal is 'Success'
\* unless the operation names one.
C19_ExpectedResponse ==
    [][\A m \in Responses :
          LET t == m.token
              r == Lookup(actionIDCallbacks, t)
              mapping == (kActionid :> t) @@ (kResponse :> m.value)
          IN  (/\ HasKey(actionIDCallbacks, t)
               /\ amiReqs[r].kind \in {"send", "login"}
               /\ amiReqs[r].fired = 0
               /\ AMIDataReceived(WireLines(m)))
              => /\ amiReqs'[r].checked =
                       IF m.value = vSuccess
                       THEN [outcome |-> "value", result |-> MessageResult(mapping)]
                       ELSE [outcome |-> "fault", result |-> AMICommandFailure(mapping)]
                 /\ \A E \in {vSuccess, vError} :
                       errorUnlessResponse(amiReqs'[r].result, E) =
                          IF m.value = E
                          THEN [outcome |-> "value", result |-> MessageResult(mapping)]
                          ELSE [outcome |-> "fault", result |-> AMICommandFailure(mapping)]
      ]_vars

\* one request passed the check with 'Success'; the login request, answered
\* with 'Error', failed it
C19_Witness ==
    \E r \in 1..Len(amiReqs) :
        /\ amiReqs[r].kind = "send"
        /\ amiReqs[r].checked.outcome = "value"
        /\ amiReqs[r].checked.result.tag = "message"
        /\ amiReqs[r].checked.result.msg[kResponse] = vSuccess
        /\ amiReqs[1].checked.outcome = "fault"

\* C20: once the connection is made, the first request is the login and
\* its lines are the first on the wire; the on_connected hook has run once
\* exactly when the login request was resolved with a message whose
\* 'response' is 'Success', and never otherwise; when the login request was
\* resolved with anything else (another response, or the ConnectionDone of a
\* lost connection) the connection is being closed or is lost.
C20_Login ==
    LET success == /\ amiReqs[1].fired >= 1
                   /\ amiReqs[1].result.tag = "message"
                   /\ Get(amiReqs[1].result.msg, kResponse) = vSuccess
    IN  /\ onConnectedCalls <= 1
        /\ amiConn = "new" => amiReqs = <<>> /\ onConnectedCalls = 0
        /\ amiConn \in {"open", "closing", "lost"} =>
              /\ Len(amiReqs) >= 1
              /\ amiReqs[1].kind = "login"
              /\ Len(amiWire) >= 1
              /\ amiWire[1] = <<"a", "c", "t", "i", "o", "n", ":", " ", "l", "o", "g", "i", "n">>
              /\ onConnectedCalls = (IF success THEN 1 ELSE 0)
              /\ (amiReqs[1].fired >= 1 /\ ~success) => amiConn \in {"closing", "lost"}

\* the login succeeded and the hook ran
C20_Witness ==
    /\ amiConn = "open"
    /\ onConnectedCalls = 1
    /\ amiReqs[1].result.msg[kResponse] = vSuccess

\* C21: session setup.  Once connectionMade has run, the protocol reads the
\* session attributes until the first blank line: a line 'agi_<name>: <value>'
\* received before it is stored in variables under its name, the first
\* blank line ends the phase and invokes the on_connect hook, and nothing
\* received afterwards (a blank line included) invokes the hook again or
\* changes variables.  The hook has run exactly once when the phase has
\* ended and never before.
C21_SessionSetup ==
    /\ [][/\ (agiConn = "new" /\ agiConn' = "open") => reading_variables'
          /\ (reading_variables /\ AGILineReceived(LineVar)) =>
                /\ variables' = (<<"a", "g", "i", "_", "t", "y", "p", "e">> :> <<"S", "I", "P">>)
                                   @@ variables
                /\ reading_variables'
                /\ onConnectCalls' = onConnectCalls
          /\ (reading_variables /\ AGILineReceived(LineBlank)) =>
                /\ ~reading_variables'
                /\ onConnectCalls' = onConnectCalls + 1
                /\ variables' = variables
          /\ (agiConn = "open" /\ ~reading_variables) =>
                /\ ~reading_variables'
                /\ onConnectCalls' = onConnectCalls
                /\ variables' = variables
         ]_vars
    /\ [](/\ onConnectCalls <= 1
          /\ agiConn = "new" => onConnectCalls = 0
          /\ agiConn = "open" => (onConnectCalls = 1 <=> ~reading_variables))

\* an attribute, the blank line, then another blank line: one call of the
\* hook and the attribute stored
C21_Witness ==
    /\ agiConn = "open"
    /\ agiLines >= 3
    /\ agiReplies = 0
    /\ onConnectCalls = 1
    /\ ~reading_variables
    /\ variables = (<<"a", "g", "i", "_", "t", "y", "p", "e">> :> <<"S", "I", "P">>)

\* C22: a reply line (three digits, white space, data) received after the
\* variables while pendingMessages is empty is dropped: no Deferred changes,
\* the FIFO stays empty and the protocol goes on reading replies.  A command
\* is therefore never resolved by a reply that arrived before it was sent:
\* the reply that resolves it is the first one after the replies that
\* resolve the commands pending ahead of it.
C22_DroppedReply ==
    /\ [][\A line \in {Line200, Line510} :
             (/\ ~reading_variables
              /\ pendingMessages = <<>>
              /\ AGILineReceived(line))
             => /\ agiDfs' = agiDfs
                /\ agiLog' = agiLog
                /\ pendingMessages' = <<>>
                /\ ~reading_variables'
                /\ agiConn' = "open"
                /\ agiDropped' = agiDropped + 1
         ]_vars
    /\ [](\A i \in 1..Len(agiDfs) :
             agiDfs[i].by > 0 =>
                agiDfs[i].by = agiDfs[i].sentAt + 1
                    + Cardinality({j \in 1..(i - 1) : agiDfs[j].by > agiDfs[i].sentAt}))

\* a reply was dropped, then a command was sent and the reply after it
\* resolved the command
C22_Witness ==
    /\ agiDropped = 1
    /\ Len(agiDfs) >= 1
    /\ agiDfs[1].sentAt = 1
    /\ agiDfs[1].by = 2
    /\ agiDfs[1].outcome = "ok"

\* C23: the tokens generateActionId makes on one connection are the id of
\* the connection, '-' and the counter, which grows by one with each of
\* them: 1, 2, ... in the order of the sends.  They are pairwise distinct,
\* the tokens of two connections with different ids never coincide, and two
\* pending requests with generated tokens have two entries of the pending map.
C23_TokenUniqueness ==
    LET generated == {r \in 1..Len(amiReqs) : amiReqs[r].actionid # X1}
        rank(r) == Cardinality({q \in generated : q <= r})
        digit(k) == <<"1", "2", "3", "4", "5", "6", "7", "8", "9">>[k]
    IN  /\ count = Cardinality(generated)
        /\ \A r \in generated : amiReqs[r].actionid = <<"u", "-", digit(rank(r))>>
        /\ \A r, q \in generated : r # q => amiReqs[r].actionid # amiReqs[q].actionid
        /\ \A r, q \in generated :
              (r # q /\ amiReqs[r].fired = 0 /\ amiReqs[q].fired = 0 /\ ~lostCompleted)
                 => \E i, j \in 1..Len(actionIDCallbacks) :
                       /\ i # j
                       /\ actionIDCallbacks[i] = [key |-> amiReqs[r].actionid, req |-> r]
                       /\ actionIDCallbacks[j] = [key |-> amiReqs[q].actionid, req |-> q]
        /\ \A i, j \in 1..Len(actionIDCallbacks) :
              i # j => actionIDCallbacks[i].key # actionIDCallbacks[j].key
        /\ \A id1, id2 \in ConnectionIds : \A n, m \in 1..(MaxReqs + 1) :
              ActionIdOf(id1, n) = ActionIdOf(id2, m) => (id1 = id2 /\ n = m)

\* the login request and a request of the caller, both with generated
\* tokens, are pending together
C23_Witness ==
    /\ Len(amiReqs) = 2
    /\ amiReqs[1].actionid = <<"u", "-", "1">>
    /\ amiReqs[2].actionid = <<"u", "-", "2">>
    /\ amiReqs[1].fired = 0
    /\ amiReqs[2].fired = 0
    /\ Len(actionIDCallbacks) = 2

\* C24: an operation that declares a failure value other than -1 (0 for
\* databaseDel, databaseSet, databaseGet, getVariable and tddMode, -2 for
\* execute) fails the caller's Deferred with an AGICommandFailure when the
\* reply is '200 result=<that value>', and does not fail it with an
\* AGICommandFailure when the result is 1, which is no failure value of any
\* of them.
C24_FailureSentinel ==
    \A c \in 1..Len(agiCalls) :
        LET call == agiCalls[c]
            sentinel == IF call.op = "execute" THEN <<"-", "2">> ELSE <<"0">>
            data == agiDfs[call.df].payload.data
        IN  (/\ call.op \in {"databaseDel", "databaseSet", "databaseGet", "getVariable",
                             "tddMode", "execute"}
             /\ agiDfs[call.df].outcome = "ok")
            => /\ data = ResultPrefix \o sentinel =>
                     /\ call.final.kind = "fault"
                     /\ call.final.exc = "AGICommandFailure"
               /\ data \in {ResultPrefix \o <<"1">>, ResultPrefix \o <<"1", " ", "(", "v", ")">>} =>
                     /\ call.final # Pending
                     /\ ~(call.final.kind = "fault" /\ call.final.exc = "AGICommandFailure")

\* C25: a payload that is not 'result=', a signed integer and, optionally,
\* a space and data never yields a value: checkFailure, resultAsInt,
\* secondResultItem, resultPlusTimeoutFlag and checkWaitForDigit each end in
\* an AGICommandFailure for it, and so does the Deferred of an operation
\* whose first callback is one of them.
C25_NoSoftValue ==
    \A c \in 1..Len(agiCalls) :
        LET call == agiCalls[c]
            data == agiDfs[call.df].payload.data
            body == SubSeq(data, 8, IF \E i \in 8..Len(data) : data[i] = " "
                                    THEN (CHOOSE i \in 8..Len(data) :
                                             data[i] = " " /\ \A j \in 8..(i - 1) : data[j] # " ") - 1
                                    ELSE Len(data))
            unsigned == IF body # <<>> /\ Head(body) \in {"-", "+"} THEN Tail(body) ELSE body
            grammar == /\ Len(data) >= 7
                       /\ SubSeq(data, 1, 7) = <<"r", "e", "s", "u", "l", "t", "=">>
                       /\ unsigned # <<>>
                       /\ \A i \in 1..Len(unsigned) : unsigned[i] \in Digits
            transforms == {"checkFailure", "resultAsInt", "secondResultItem",
                           "resultPlusTimeoutFlag", "checkWaitForDigit"}
        IN  (/\ call.df > 0
             /\ call.raised = "none"
             /\ agiDfs[call.df].outcome = "ok"
             /\ ~grammar)
            => /\ \A f \in transforms :
                     /\ ApplyCallback(Callback(f, PyInt(-1)), PyStr(data)).kind = "fault"
                     /\ ApplyCallback(Callback(f, PyInt(-1)), PyStr(data)).exc = "AGICommandFailure"
               /\ call.chain[1].f \in transforms =>
                     /\ call.final.kind = "fault"
                     /\ call.final.exc = "AGICommandFailure"

\* C26: no exception leaves lineReceived, whatever the line (a line that is
\* not UTF-8 included) and whatever a hook, a callback or an event handler
\* raises; a line received leaves the connection of FastAGIProtocol open,
\* and an event for the subscribers, whose handler A raises, leaves the
\* connection of AMIProtocol open and the pending requests as they were.
C26_LineRobustness ==
    /\ [](escapedFrom = {})
    /\ [][/\ (agiConn = "open" /\ agiLines' # agiLines) => agiConn' = "open"
          /\ \A m \in Events :
                \/ m.token # NoneKey
                \/ /\ amiConn' = "open"
                   /\ amiReqs' = amiReqs
                   /\ actionIDCallbacks' = actionIDCallbacks
                \/ ~AMIDataReceived(WireLines(m))
         ]_vars

\* C27: every call of an operation on a ready protocol returns a Deferred
\* after one sendCommand: no call raises, the c-th call owns the c-th
\* Deferred of sendCommand, one command line was written for each call made
\* while the connection was open, and the caller's Deferred is resolved as
\* soon as the reply has fired the Deferred of sendCommand.
C27_OneSendPerCall ==
    /\ Len(agiDfs) = Len(agiCalls)
    /\ Len(agiWire) <= Len(agiCalls)
    /\ agiConn = "open" => Len(agiWire) = Len(agiCalls)
    /\ \A c \in 1..Len(agiCalls) :
          /\ agiCalls[c].raised = "none"
          /\ agiCalls[c].df = c
          /\ (c <= Len(agiDfs) /\ agiDfs[c].fired > 0) => agiCalls[c].final # Pending

\* C28: a time given in seconds is written in the command line as that
\* many thousands, an integer number of milliseconds: 2 and 2.0 as 2000,
\* 0.5 as 500, -1 as -1000, for getData, receiveChar, receiveText,
\* recordFile and waitForDigit.
C28_Milliseconds ==
    [][\A inv \in {i \in Invocations : i.arg.t \in {"int", "float"}} :
          LET ms == CASE inv.arg = PyInt(2) -> <<"2", "0", "0", "0">>
                      [] inv.arg = PyFloat(4) -> <<"2", "0", "0", "0">>
                      [] inv.arg = PyFloat(1) -> <<"5", "0", "0">>
                      [] inv.arg = PyInt(-1) -> <<"-", "1", "0", "0", "0">>
              command == CASE inv.op = "getData" -> <<"G", "E", "T", " ", "D", "A", "T", "A", " ", "\"", "f", "\"", " ">> \o ms
                           [] inv.op = "receiveChar" -> <<"R", "E", "C", "E", "I", "V", "E", " ", "C", "H", "A", "R", " ">> \o ms
                           [] inv.op = "receiveText" -> <<"R", "E", "C", "E", "I", "V", "E", " ", "T", "E", "X", "T", " ">> \o ms
                           [] inv.op = "recordFile" -> <<"R", "E", "C", "O", "R", "D", " ", "F", "I", "L", "E", " ", "\"", "f", "\"", " ", "\"", "w", "a", "v", "\"", " ", "#", " ">> \o ms \o <<" ", "B", "E", "E", "P">>
                           [] inv.op = "waitForDigit" -> <<"W", "A", "I", "T", " ", "F", "O", "R", " ", "D", "I", "G", "I", "T", " ">> \o ms
          IN  (agiConn = "open" /\ AGICall(inv)) => agiWire' = Append(agiWire, command)
      ]_vars

\* C29: when the reply to recordFile is '200 result=5 (dtmf) endpos=12',
\* the caller's Deferred is resolved with the value (5, 'dtmf', 12).
C29_RecordFileResult ==
    \A c \in 1..Len(agiCalls) :
        (/\ agiCalls[c].op = "recordFile"
         /\ agiDfs[agiCalls[c].df].outcome = "ok"
         /\ agiDfs[agiCalls[c].df].payload.data = <<"r", "e", "s", "u", "l", "t", "=", "5", " ", "(", "d", "t", "m", "f", ")", " ", "e", "n", "d", "p", "o", "s", "=", "1", "2">>)
        => LET value == agiCalls[c].final.val.items
           IN  /\ agiCalls[c].final.kind = "value"
               /\ Len(value) = 3
               /\ value[1] \in {PyInt(5), PyStr(<<"5">>)}
               /\ value[2] = PyStr(<<"d", "t", "m", "f">>)
               /\ value[3] = PyInt(12)

\* C30: unexpected lines change nothing.  (a) While the variables are
\* read, a line that is not blank and is not 'agi_<name>: <value>' leaves
\* variables, the phase, the FIFO and the Deferreds as they were.  (b) After
\* the variables, a line that is not three digits, white space and data
\* leaves the FIFO and the Deferreds as they were.  (c) On the management
\* connection, a line without ':' that neither ends with '--END COMMAND--'
\* nor is the blank line gives the message no field: the message is
\* dispatched with the fields of its other lines.
C30_UnexpectedLines ==
    [][/\ \A line \in {LineJunk, Line200, Line510} :
             (reading_variables /\ AGILineReceived(line))
             => /\ variables' = variables
                /\ reading_variables'
                /\ agiConn' = "open"
                /\ onConnectCalls' = onConnectCalls
                /\ pendingMessages' = pendingMessages
                /\ agiDfs' = agiDfs
       /\ \A line \in {LineJunk, LineVar, LineBlank} :
             (agiConn = "open" /\ ~reading_variables /\ AGILineReceived(line))
             => /\ pendingMessages' = pendingMessages
                /\ agiDfs' = agiDfs
                /\ agiLog' = agiLog
                /\ variables' = variables
                /\ agiConn' = "open"
       /\ \A m \in Responses \cup Events :
             \A x \in {l \in NoColonLines : ~EndsWith(l, END_DATA)} :
                LET t == m.token
                    correlated == HasKey(actionIDCallbacks, t)
                    r == Lookup(actionIDCallbacks, t)
                    mapping == (IF t = NoneKey THEN EmptyDict ELSE (kActionid :> t)) @@
                               ((IF m \in Responses THEN kResponse ELSE kEvent) :> m.value)
                    subscribers == IF m \in Events
                                   THEN HandlersOf(eventTypeCallbacks, m.value)
                                           \o HandlersOf(eventTypeCallbacks, NoneKey)
                                   ELSE <<>>
                IN  (amiConn = "open" /\ AMIDataReceived(WireLinesWith(m, x)))
                    => /\ messageCache' = <<>>
                       /\ lastDispatch' = (IF correlated THEN <<"callback">> ELSE <<>>)
                                             \o subscribers
                       /\ (correlated /\ amiReqs[r].fired = 0) =>
                             amiReqs'[r].result = MessageResult(mapping)
                       /\ ~correlated => amiReqs' = amiReqs
      ]_vars

\* the banner with the version came inside the response to the login
\* request, which was resolved with the two fields of the other lines
C30_Witness ==
    /\ amiVersion = <<"1", ".", "0">>
    /\ Len(amiReqs) = 1
    /\ amiReqs[1].fired = 1
    /\ amiReqs[1].result = MessageResult((kResponse :> vSuccess) @@ (kActionid :> <<"u", "-", "1">>))
    /\ lastDispatch = <<"callback">>
    /\ messageCache = <<>>

\* C30 as it was stated: on the management connection every line without
\* ':' gives the message no field.
C30_Original ==
    [][\A m \in Responses :
          \A x \in {l \in NoColonLines : Colons(l) = {}} :
             LET t == m.token
                 r == Lookup(actionIDCallbacks, t)
                 mapping == (kActionid :> t) @@ (kResponse :> m.value)
             IN  (/\ amiConn = "open"
                  /\ HasKey(actionIDCallbacks, t)
                  /\ amiReqs[r].fired = 0
                  /\ AMIDataReceived(WireLinesWith(m, x)))
                 => amiReqs'[r].result = MessageResult(mapping)
      ]_vars

\* C31: a line that is not blank is added to the buffer and nothing is
\* dispatched; at a blank line the buffer is left empty and one message is
\* built from the buffered lines: each 'Key: Value' line gives the
\* lower-cased, trimmed key and the trimmed value, and a key that occurs
\* several times has its values joined by CRLF in the order of arrival.
\* The message is seen in what the request it answers is resolved with.
C31_Reassembly ==
    [][\A line \in ReassemblyLines :
          LET n == Len(messageCache)
              stripped(i) == Strip(messageCache[i])
              fields == {i \in 1..n : stripped(i) # <<>>}
              keyOf(i) == Strip(Lower(SubSeq(stripped(i), 1, FirstColon(stripped(i)) - 1)))
              valueOf(i) == Strip(SubSeq(stripped(i), FirstColon(stripped(i)) + 1,
                                         Len(stripped(i))))
              keys == {keyOf(i) : i \in fields}
              Joined[m \in 0..n] ==
                  [k \in keys |->
                      IF m = 0 THEN <<>>
                      ELSE IF m \in fields /\ keyOf(m) = k
                      THEN IF \E j \in fields : j < m /\ keyOf(j) = k
                           THEN Joined[m - 1][k] \o <<"\r", "\n">> \o valueOf(m)
                           ELSE valueOf(m)
                      ELSE Joined[m - 1][k]]
              message == Joined[n]
          IN  (amiConn = "open" /\ AMILineReceived(line))
              => IF Strip(line) # <<>>
                 THEN /\ messageCache' = Append(messageCache, line)
                      /\ amiReqs' = amiReqs
                      /\ actionIDCallbacks' = actionIDCallbacks
                 ELSE /\ messageCache' = <<>>
                      /\ IF kActionid \in keys /\ HasKey(actionIDCallbacks, message[kActionid])
                         THEN LET r == Lookup(actionIDCallbacks, message[kActionid])
                              IN  /\ amiReqs'[r].fired = amiReqs[r].fired + 1
                                  /\ amiReqs[r].fired = 0
                                        => amiReqs'[r].result = MessageResult(message)
                         ELSE amiReqs' = amiReqs
      ]_vars

\* the login request was resolved with a message in which 'response' came
\* twice
C31_Witness ==
    /\ messageCache = <<>>
    /\ Len(amiReqs) = 1
    /\ amiReqs[1].fired = 1
    /\ amiReqs[1].result = MessageResult((kActionid :> <<"u", "-", "1">>)
                                         @@ (kResponse :> (vSuccess \o <<"\r", "\n">> \o <<"b", ":", "c">>)))

\* C32: a message that holds the banner with version v leaves v as the
\* detected version and gets no field from the banner.  With a version
\* detected, logoff expects 'Goodbye', command expects 'Follows' for 1.0 and
\* 2.7.0 and 'Success' for 2.10.1 and 5.0.1, ping expects 'Pong' for 1.0 and
\* 'Success' otherwise; the operation succeeds only on the response it
\* expects, and any other response is a fault that carries the message.
C32_VersionExpectations ==
    [][/\ \A m \in LoginReplies : \A v \in Versions :
             LET r == Lookup(actionIDCallbacks, m.token)
             IN  (amiConn = "open" /\ amiWire' = amiWire /\
                  AMIDataReceived(WireLinesWith(m, VERSION_PREFIX \o <<"/">> \o v)))
                 => /\ amiVersion' = v
                    /\ (HasKey(actionIDCallbacks, m.token) /\ amiReqs[r].fired = 0)
                       => amiReqs'[r].result =
                             MessageResult((kResponse :> m.value) @@ (kActionid :> m.token))
       /\ \A op \in {"logoff", "command", "ping"} :
             (/\ amiVersion \in Versions \/ op = "ping"
              /\ Len(amiReqs') = Len(amiReqs) + 1
              /\ AMICall(op))
             => amiReqs'[Len(amiReqs) + 1].expected =
                   CASE op = "logoff" -> <<"G", "o", "o", "d", "b", "y", "e">>
                     [] op = "command" -> IF amiVersion \in {<<"2", ".", "1", "0", ".", "1">>, <<"5", ".", "0", ".", "1">>}
                                          THEN <<"S", "u", "c", "c", "e", "s", "s">> ELSE <<"F", "o", "l", "l", "o", "w", "s">>
                     [] op = "ping" -> IF amiVersion = <<"1", ".", "0">> THEN <<"P", "o", "n", "g">> ELSE <<"S", "u", "c", "c", "e", "s", "s">>
       /\ \A m \in OpReplies : \A output \in BOOLEAN :
             LET r == Lookup(actionIDCallbacks, m.token)
                 message == (kResponse :> m.value) @@ (kActionid :> m.token) @@
                            (IF output THEN (kOutput :> <<"a">>) ELSE EmptyDict)
             IN  (/\ amiConn = "open"
                  /\ HasKey(actionIDCallbacks, m.token)
                  /\ amiReqs[r].kind \in {"logoff", "command", "ping"}
                  /\ amiReqs[r].expected # NoneKey
                  /\ amiReqs[r].fired = 0
                  /\ amiWire' = amiWire
                  /\ AMIDataReceived(IF output THEN WireLinesWith(m, <<"O", "u", "t", "p", "u", "t", ":", " ", "a">>)
                                     ELSE WireLines(m)))
                 => /\ amiReqs'[r].result = MessageResult(message)
                    /\ amiReqs'[r].checked.outcome = "value" => m.value = amiReqs[r].expected
                    /\ m.value # amiReqs[r].expected
                       => amiReqs'[r].checked = [outcome |-> "fault",
                                                 result |-> AMICommandFailure(message)]
      ]_vars

\* with 2.10.1 detected, command was answered 'Success' and gave the lines
\* of the output
C32_Witness ==
    /\ amiVersion = <<"2", ".", "1", "0", ".", "1">>
    /\ Len(amiReqs) = 2
    /\ amiReqs[2].kind = "command"
    /\ amiReqs[2].expected = vSuccess
    /\ amiReqs[2].checked.outcome = "value"
    /\ amiReqs[2].checked.result.tag = "lines"
    /\ amiReqs[2].result.msg[kResponse] = vSuccess

\* C33: the commands jumpOnError has sent are the first of SET CONTEXT
\* <agi_context>, SET EXTENSION <agi_extension>, SET PRIORITY <agi_priority
\* + 100>, in this order; each but the first was sent only after the reply
\* to the one before succeeded; the connection is dropped when the three
\* have succeeded and only then, so not when one of them failed; and when
\* the failure is not of a type in forErrors no command is sent.
C33_JumpOnError ==
    LET succeeded(k) == /\ agiDfs[k].fired = 1
                        /\ agiDfs[k].outcome = "ok"
                        /\ resultAsInt(PyStr(agiDfs[k].payload.data)).kind = "value"
        failed(k) == agiDfs[k].fired = 1 /\ ~succeeded(k)
    IN  /\ Len(agiWire) <= 3
        /\ agiWire = SubSeq(<<<<"S", "E", "T", " ", "C", "O", "N", "T", "E", "X", "T", " ", "c">>, <<"S", "E", "T", " ", "E", "X", "T", "E", "N", "S", "I", "O", "N", " ", "e">>, <<"S", "E", "T", " ", "P", "R", "I", "O", "R", "I", "T", "Y", " ", "1", "0", "1">>>>,
                            1, Len(agiWire))
        /\ \A k \in 2..Len(agiDfs) : succeeded(k - 1)
        /\ agiConn = "closing" => Len(agiWire) = 3 /\ \A k \in 1..3 : succeeded(k)
        /\ (Len(agiDfs) = 3 /\ succeeded(3)) => agiConn \in {"closing", "lost"}
        /\ \A k \in 1..Len(agiDfs) :
              failed(k) => /\ agiConn # "closing"
                           /\ Len(agiDfs) = k
                           /\ finalDF[1].outcome = "err"
        /\ (agiCalls # <<>> /\ ~agiCalls[1].arg.b) =>
              agiWire = <<>> /\ agiDfs = <<>> /\ agiCalls[1].raised = "Failure"

\* the three commands were sent and answered, the connection was dropped
\* and the Deferred of jumpOnError gave the results
C33_Witness ==
    /\ agiConn = "closing"
    /\ Len(agiWire) = 3
    /\ finalDF # <<>>
    /\ finalDF[1].outcome = "ok"
    /\ Len(finalDF[1].results) = 4

C35_CollectOwnMessages ==
    /\ [][\A m \in CollectMessages : \A r \in 1..Len(amiReqs) :
             LET mapping == (IF m.token = NoneKey THEN EmptyDict ELSE (kActionid :> m.token))
                            @@ ((IF m.key[1] = "R" THEN kResponse ELSE kEvent) :> m.value)
             IN  (/\ amiWire' = amiWire
                  /\ Len(amiReqs') = Len(amiReqs)
                  /\ amiReqs[r].kind = "collect"
                  /\ amiReqs[r].fired = 0
                  /\ AMIDataReceived(WireLines(m)))
                 => IF m.token # amiReqs[r].actionid THEN amiReqs'[r] = amiReqs[r]
                    ELSE IF m.value = vError THEN amiReqs'[r].cache = amiReqs[r].cache
                    ELSE amiReqs'[r].cache = Append(amiReqs[r].cache, mapping)
         ]_vars
    /\ [](\A r \in 1..Len(amiReqs) :
             amiReqs[r].kind = "collect" =>
                /\ \A i \in 1..Len(amiReqs[r].cache) :
                      /\ Get(amiReqs[r].cache[i], kActionid) = amiReqs[r].actionid
                      /\ Get(amiReqs[r].cache[i], kResponse) # vError
                /\ amiReqs[r].outcome = "value" => amiReqs[r].result.list = amiReqs[r].cache)

\* two aggregations were in flight together: the first was resolved with
\* its response and its stop event after the second had accumulated its
\* own response
C35_Witness ==
    /\ Len(amiReqs) = 3
    /\ amiReqs[2].kind = "collect" /\ amiReqs[3].kind = "collect"
    /\ amiReqs[2].outcome = "value"
    /\ Len(amiReqs[2].result.list) = 2
    /\ amiReqs[3].fired = 0
    /\ Len(amiReqs[3].cache) = 1
    /\ amiReqs[3].cache[1][kActionid] = generateActionId(2)
    /\ lastDispatch = <<"callback">>
    /\ ~HasKey(actionIDCallbacks, amiReqs[2].actionid)

\* C36: dbGet requests in flight together are isolated.  The Deferred a
\* dbGet returned is fired at most once; when it is fired with a val, it is
\* the val of the DBGetResponse event that carries the token of its own
\* request; and when the manager answers a request whose Deferred is
\* pending, that Deferred is fired.
C36_DbGetIsolation ==
    /\ [](\A r \in 1..Len(amiReqs) : \A k \in 1..(MaxReqs + 2) :
             (amiReqs[r].kind = "dbGetValue" /\ amiReqs[r].actionid = generateActionId(k))
             => /\ amiReqs[r].fired <= 1
                /\ amiReqs[r].result.tag = "str" => amiReqs[r].result.str = DbGetValue(k))
    /\ [][\A r \in 1..Len(amiReqs) : \A k \in 1..(MaxReqs + 2) :
             (/\ amiReqs[r].kind = "dbGetValue"
              /\ amiReqs[r].actionid = generateActionId(k)
              /\ amiReqs[r].fired = 0
              /\ amiWire' = amiWire
              /\ HasKey(actionIDCallbacks, generateActionId(k))
              /\ \/ AMIHandlersReceived(DbGetResponse(k, vError), <<>>)
                 \/ AMIHandlersReceived(DbGetResponse(k, vSuccess), DbGetEvent(k)))
             => amiReqs'[r].fired = 1
         ]_vars

\* C37: dispatch is stable under the subscription changes handlers make.
\* Every handler that is registered for 'Hangup' or for every event when a
\* Hangup event arrives is invoked exactly once for that event, whatever
\* the handlers register or deregister while the event is dispatched.
C37_StableDispatch ==
    [][LET registered == HandlersOf(eventTypeCallbacks, vHangup)
                            \o HandlersOf(eventTypeCallbacks, NoneKey)
       IN  (/\ eventTypeCallbacks # EmptyDict
            /\ amiWire' = amiWire
            /\ AMIHandlersReceived(WireLines([key |-> <<"E">> \o Tail(kEvent),
                                              value |-> vHangup, token |-> NoneKey]), <<>>))
           => \A i \in 1..Len(registered) :
                 Cardinality({j \in 1..Len(lastDispatch') :
                                 lastDispatch'[j] = registered[i].f}) = 1
      ]_vars

\* C38: requests that share a token their caller supplied are not lost.
\* When two sendDeferred requests were made with the same token, the
\* second while the connection was up, both are resolved once the
\* connection is lost at the latest: after connectionLost neither is
\* pending.
C38_SuppliedTokens ==
    [][\A views \in BOOLEAN : \A r1, r2 \in 1..Len(amiReqs) :
          (/\ r1 < r2
           /\ amiReqs[r1].kind = "send" /\ amiReqs[r2].kind = "send"
           /\ amiReqs[r1].actionid = amiReqs[r2].actionid
           /\ amiConn' = "lost"
           /\ AMIConnectionLost(views))
          => amiReqs'[r1].fired >= 1 /\ amiReqs'[r2].fired >= 1
      ]_vars

\* C39: nothing is left dangling after the connection of FastAGIProtocol
\* is lost.  In every state after connectionLost the pending FIFO is empty,
\* every Deferred sendCommand ever returned has been fired, a command sent
\* after the loss included, and every Deferred onClose returned has been
\* fired, one obtained after the loss included.
C39_NoDanglingAfterClose ==
    agiConn = "lost" =>
        /\ pendingMessages = <<>>
        /\ \A d \in 1..Len(agiDfs) : agiDfs[d].fired >= 1
        /\ \A w \in onCloseReturned : agiWaiters[w] >= 1

\* C40: the state of an InSequence object is single-shot, however often
\* the object is called.  No action is invoked twice; once a run has
\* succeeded the list of actions is empty, and a call made after that
\* starts no action; when a run fails, the actions not invoked yet are
\* still in the list, in the order appended, and if the object had been
\* called only once they are the actions appended after the one that failed.
C40_SingleShot ==
    /\ [](\A i, j \in 1..Len(started) : started[i] = started[j] => i = j)
    /\ []((\E f \in 1..Len(finalDF) : finalDF[f].outcome = "ok") => actions = <<>>)
    /\ [][((\E f \in 1..Len(finalDF) : finalDF[f].outcome = "ok") /\ SeqCallAgain)
             => started' = started /\ inflight' = inflight]_vars
    /\ [][\A f \in 1..Len(finalDF') :
             (/\ f <= Len(finalDF) => finalDF[f].outcome = "pending"
              /\ finalDF'[f].outcome = "err")
             => /\ \A id \in 1..seqAppended :
                      (\A i \in 1..Len(started') : started'[i] # id)
                          <=> (\E i \in 1..Len(actions') : actions'[i].id = id)
                /\ \A i, j \in 1..Len(actions') : i < j => actions'[i].id < actions'[j].id
                /\ Len(finalDF') = 1 =>
                      \A id \in (finalDF'[f].reason + 1)..seqAppended :
                         /\ \A i \in 1..Len(started') : started'[i] # id
                         /\ \E i \in 1..Len(actions') : actions'[i].id = id
         ]_vars

\* the object was called three times: the first run failed at the first
\* action, the second call ran the action left in the list, and the third
\* call, made after that success, started nothing
C40_Witness ==
    /\ Len(finalDF) = 3
    /\ finalDF[1].outcome = "err" /\ finalDF[1].reason = 1
    /\ finalDF[2].outcome = "ok"
    /\ finalDF[3].outcome = "ok"
    /\ started = <<1, 2>>
    /\ actions = <<>>

\* C40 as the specification states it: when a run fails, the actions
\* appended after the one that failed are still in the list and have not
\* been invoked, however often the object was called
C40_Original ==
    /\ [](\A i, j \in 1..Len(started) : started[i] = started[j] => i = j)
    /\ []((\E f \in 1..Len(finalDF) : finalDF[f].outcome = "ok") => actions = <<>>)
    /\ [][((\E f \in 1..Len(finalDF) : finalDF[f].outcome = "ok") /\ SeqCallAgain)
             => started' = started /\ inflight' = inflight]_vars
    /\ [][\A f \in 1..Len(finalDF') :
             (/\ f <= Len(finalDF) => finalDF[f].outcome = "pending"
              /\ finalDF'[f].outcome = "err")
             => \A id \in (finalDF'[f].reason + 1)..seqAppended :
                   /\ \A i \in 1..Len(started') : started'[i] # id
                   /\ \E i \in 1..Len(actions') : actions'[i].id = id
         ]_vars

====
